---- MODULE Spec2Model ----
(***************************************************************************)
(* A model of the Graal/HotSpot code installer (CodeInstaller::install and *)
(* the routines it drives) of share/vm/graal/graalCodeInstaller.cpp, with   *)
(* the SPARC platform routines of cpu/sparc/vm/graalCodeInstaller_sparc.hpp *)
(* and, where a property is about it, the older c1x installer of            *)
(* share/vm/c1x/c1x_CodeInstaller.cpp.                                      *)
(*                                                                         *)
(* Addresses are offsets: a section's start() is 0, so an address in the    *)
(* instruction section is its pc offset and a section's end is its size.    *)
(***************************************************************************)
EXTENDS Integers, Sequences, FiniteSets, TLC

VARIABLES
  \* ---- the compiled-code descriptor (read-only input of one install) ----
  sites,              \* HotSpotCompiledCode::sites
  assumptions,        \* CompilationResult::assumptions list
  is_stub,            \* compiled_code is a HotSpotCompiledRuntimeStub
  code_length,        \* code()->length(), the length of the targetCode array
  target_code_size,   \* CompilationResult::targetCodeSize
  data_length,        \* data_section()->length()
  handlers,           \* HotSpotCompiledCode::exceptionHandlers
  \* ---- the environment ----
  debug_build,        \* the build checks assert() (ASSERT defined)
  capacity,           \* bytes the instruction section can hold (limit - start)
  consts_alignment,   \* _constants->alignment()
  \* ---- CodeInstaller fields and the CodeBuffer ----
  pc,                 \* where install() is
  fatal_msg,          \* the message of the fatal error that ended the process
  phases,             \* the phases install() has completed, in order
  _next_call_type,
  _invoke_mark_pc,
  _code_size,
  _constants_size,
  _offsets,           \* CodeOffsets: label -> pc offset, -1 when unset
  insts_end,          \* _instructions->end()
  insts_copied,       \* bytes memcpy wrote to _instructions->start()
  consts_end,         \* _constants->end()
  data_read,          \* bytes memcpy read from the data section array
  stub_entries,       \* estimate_stub_entries(), stubs the stub section can hold
  site_i,             \* sites fully processed so far (the loop index i)
  dispatched,         \* the routine each site was handed to, in dispatch order
  log,                \* calls made on the debug recorder, sections and recorders
  _dependencies,      \* assertions made on the Dependencies object
  _exception_handler_table,
  result,             \* the CodeInstallResult install() returned
  cb,                 \* the code blob install() produced
  registered_deps,    \* what the runtime registration call was handed
  \* ---- older installer: constants emitted by data patches ----
  dp_pc,
  dp_platform,        \* whose data patch routine runs: "c1x" or "sparc"
  dp_sites,           \* the site list
  dp_i,               \* sites processed so far
  dp_alignment,       \* _constants->alignment()
  dp_constants_size,  \* _constants_size
  dp_consts_end,      \* _constants->end()
  \* ---- create_oop_map ----
  om_pc,
  om_arch,            \* TARGET_ARCH "x86" or "sparc", or "c1x" for the older builder
  om_register_map,    \* registerRefMap: whether it is NULL, and its words
  om_frame_map,       \* BitSet::words(frameRefMap)
  om_entries,         \* the OopMap: its entries with the index that made each
  \* ---- get_scope_value on the virtual objects of one safepoint ----
  vo_pc,
  vo_values,          \* VirtualObject::values, per id
  vo_roots,           \* the values of the frame being recorded
  vo_objects,         \* the object pool (GrowableArray<ScopeValue*>* objects)
  vo_stack,           \* the activations of get_scope_value
  vo_returned,        \* per get_scope_value call that returned: id and pool record
  vo_site,            \* the site routine that called record_scope
  \* ---- record_scope on one bytecode position ----
  rs_pc,
  rs_build,           \* the build checks assert() (ASSERT defined)
  rs_position,        \* the BytecodePosition or BytecodeFrame being recorded
  rs_i,               \* the loop index i over the frame's values
  rs_taken,           \* the indices of the values handed to get_scope_value
  rs_locals,          \* GrowableArray<ScopeValue*>* locals
  rs_expressions,     \* GrowableArray<ScopeValue*>* expressions
  rs_reexecute,       \* bool reexecute
  rs_scope,           \* the describe_scope calls made so far, in order
  rs_chain,           \* the position record_scope was called with and its callers
  rs_depth,           \* the position of rs_chain the running activation records
  \* ---- two installations run by two compiler threads ----
  cc_installers,      \* per thread: the fields of its CodeInstaller object
  cc_code_cache       \* the shared code cache: the threads that registered, in order

installerVars ==
  << sites, assumptions, is_stub, code_length, target_code_size, data_length,
     handlers, debug_build, capacity, consts_alignment, pc, fatal_msg, phases,
     _next_call_type, _invoke_mark_pc, _code_size, _constants_size, _offsets,
     insts_end, insts_copied, consts_end, data_read, stub_entries, site_i,
     dispatched, log, _dependencies, _exception_handler_table, result, cb,
     registered_deps >>

sizingVars ==
  << dp_pc, dp_platform, dp_sites, dp_i, dp_alignment, dp_constants_size,
     dp_consts_end >>

oopMapVars == << om_pc, om_arch, om_register_map, om_frame_map, om_entries >>

scopeVars == << vo_pc, vo_values, vo_roots, vo_objects, vo_stack, vo_returned, vo_site >>

recordScopeVars ==
  << rs_pc, rs_build, rs_position, rs_i, rs_taken, rs_locals, rs_expressions,
     rs_reexecute, rs_scope, rs_chain, rs_depth >>

(* The variables of the routines modelled after the virtual object pool *)
laterVars == << recordScopeVars, cc_installers, cc_code_cache >>

nonInstallerVars == << sizingVars, oopMapVars, scopeVars, laterVars >>

vars == << installerVars, sizingVars, oopMapVars, scopeVars, laterVars >>

----------------------------------------------------------------------------
(* enum CodeInstaller::MarkId *)
VERIFIED_ENTRY == 1
UNVERIFIED_ENTRY == 2
OSR_ENTRY == 3
EXCEPTION_HANDLER_ENTRY == 4
DEOPT_HANDLER_ENTRY == 5
INVOKEINTERFACE == 6
INVOKEVIRTUAL == 7
INVOKESTATIC == 8
INVOKESPECIAL == 9
INLINE_INVOKE == 10
POLL_NEAR == 11
POLL_RETURN_NEAR == 12
POLL_FAR == 13
POLL_RETURN_FAR == 14
CARD_TABLE_ADDRESS == 15
CARD_TABLE_SHIFT == 16
INVOKE_INVALID == -1

(* NativeCall::instruction_size and NativeFarCall::instruction_size, SPARC *)
NativeCall_instruction_size == 8
NativeFarCall_instruction_size == 36

NULL == "NULL"

(* registerRefMap: NULL, or a bit set with these words *)
NoRegisterMap == [is_null |-> TRUE, words |-> << >>]
RegisterMap(words) == [is_null |-> FALSE, words |-> words]

(* ---- bounds of the model ---- *)
MaxSites == 3
MaxAssumptions == 1
InstsCapacity == 2
MaxHandlers == 1

----------------------------------------------------------------------------
(* Helpers *)

Ev(op, at, arg, mark) == [op |-> op, pc |-> at, arg |-> arg, mark |-> mark]

align_size_up(size, alignment) ==
  ((size + alignment - 1) \div alignment) * alignment

SeqsUpTo(S, n) == UNION { [1..k -> S] : k \in 0..n }

(* The result of a routine that may abort: st is "ok", "fatal" (fatal(),      *)
(* guarantee(), ShouldNotReachHere(), a failed assert of a debug build) or     *)
(* "crash" (a NULL dereference); ev are the calls made before it ended.        *)
Ok(ev) == [st |-> "ok", msg |-> "", ev |-> ev]
Fatal(msg, ev) == [st |-> "fatal", msg |-> msg, ev |-> ev]
Crash(msg, ev) == [st |-> "crash", msg |-> msg, ev |-> ev]

----------------------------------------------------------------------------
(* Sites *)

Site(cls, target, debug, has_id, id, reason, ref, offset) ==
  [cls |-> cls, target |-> target, debug |-> debug, has_id |-> has_id, id |-> id,
   reason |-> reason, ref |-> ref, offset |-> offset]

(* debug: "none" (no DebugInfo), "map" (DebugInfo without a bytecode         *)
(* position), "frame" (DebugInfo with a bytecode position)                    *)
CallSite(target, debug) == Site("Call", target, debug, FALSE, 0, "", "", 0)
MarkSite(id) == Site("Mark", "", "none", TRUE, id, "", "", 0)
MarkNoId == Site("Mark", "", "none", FALSE, 0, "", "", 0)
InfopointSite(reason, debug) == Site("Infopoint", "", debug, FALSE, 0, reason, "", 0)
DataPatchSite(ref, offset) == Site("DataPatch", "", "none", FALSE, 0, "", ref, offset)
OtherSite == Site("Other", "", "none", FALSE, 0, "", "", 0)

(* CompilationResult_Site::pcOffset of the i-th site (1-based): the sites are *)
(* in emission order, one every 64 bytes.                                     *)
pcOffset(i) == 64 * (i - 1)

InvokeKinds == {INVOKEVIRTUAL, INVOKEINTERFACE, INLINE_INVOKE, INVOKESTATIC, INVOKESPECIAL}

IsInvokeMark(s) == s.cls = "Mark" /\ s.has_id /\ s.id \in InvokeKinds
IsJavaCall(s) == s.cls = "Call" /\ s.target = "method"

----------------------------------------------------------------------------
(* Site Processor: the routines of graalCodeInstaller.cpp and the SPARC pd_   *)
(* routines they call.                                                        *)

(* pd_next_offset were it to return the offset of the call itself *)
pd_next_offset_SameOffset(inst, pc_offset) ==
  IF inst \in {"call", "jump", "sethi"} THEN pc_offset ELSE -1

(* pd_next_offset: the offset of the instruction after the call, or fatal.    *)
(* inst is the kind of the instruction at the call site.                      *)
pd_next_offset(inst, pc_offset) ==
  IF inst \in {"call", "jump"} THEN pc_offset + NativeCall_instruction_size
  ELSE IF inst = "sethi" THEN pc_offset + NativeFarCall_instruction_size
  ELSE -1

pd_relocate_ForeignCall(inst, at) ==
  IF inst = "call" THEN
    Ok(<< Ev("set_destination", at, "foreign_call_destination", -1),
          Ev("relocate", at, "runtime_call", -1) >>)
  ELSE IF inst = "sethi" THEN
    Ok(<< Ev("set_jump_destination", at, "foreign_call_destination", -1),
          Ev("relocate", at, "runtime_call", -1) >>)
  ELSE Fatal("unknown call or jump instruction", << >>)

(* method: "instance", "static" or "unresolved" (not a resolved method, which  *)
(* no assert looks at); asserts: the build checks assert().                    *)
pd_relocate_JavaMethod_NoSwitch(method, asserts, next_call_type, pc_offset, invoke_mark_pc) ==
  Ok(<< Ev("set_destination", pc_offset, "resolve_virtual_call_stub", -1),
        Ev("relocate", pc_offset, "virtual_call", invoke_mark_pc) >>)

pd_relocate_JavaMethod(method, asserts, next_call_type, pc_offset, invoke_mark_pc) ==
  IF next_call_type = INLINE_INVOKE THEN Ok(<< >>)
  ELSE IF asserts /\ next_call_type \in {INVOKEVIRTUAL, INVOKEINTERFACE, INVOKESPECIAL}
          /\ method = "static" THEN
    Fatal("cannot call static method with invokeinterface/invokespecial", << >>)
  ELSE IF asserts /\ next_call_type = INVOKESTATIC /\ method = "instance" THEN
    Fatal("cannot call non-static method with invokestatic", << >>)
  ELSE IF next_call_type \in {INVOKEVIRTUAL, INVOKEINTERFACE} THEN
    Ok(<< Ev("set_destination", pc_offset, "resolve_virtual_call_stub", -1),
          Ev("relocate", pc_offset, "virtual_call", invoke_mark_pc) >>)
  ELSE IF next_call_type = INVOKESTATIC THEN
    Ok(<< Ev("set_destination", pc_offset, "resolve_static_call_stub", -1),
          Ev("relocate", pc_offset, "static_call", -1) >>)
  ELSE IF next_call_type = INVOKESPECIAL THEN
    Ok(<< Ev("set_destination", pc_offset, "resolve_opt_virtual_call_stub", -1),
          Ev("relocate", pc_offset, "opt_virtual_call", -1) >>)
  ELSE Fatal("invalid _next_call_type value", << >>)

(* The recording a site with DebugInfo does at offset `at`: add_safepoint     *)
(* with the oop map, and record_scope when a bytecode position is attached.   *)
RecordSafepoint(debug, at) ==
  << Ev("add_safepoint", at, "oop_map", -1) >>
  \o (IF debug = "frame" THEN << Ev("describe_scope", at, "frame", -1) >> ELSE << >>)

(* site_Call up to the point where _next_call_type is reset; a result that is *)
(* not "ok" ended the process before the reset.                               *)
site_Call_body(site, pc_offset, inst, method, asserts, next_call_type, invoke_mark_pc) ==
  LET next_pc_offset == pd_next_offset(inst, pc_offset)
      rec == IF site.debug # "none" THEN RecordSafepoint(site.debug, next_pc_offset)
             ELSE << >>
  IN
  IF next_pc_offset = -1 THEN
    Fatal("unsupported type of instruction for call site", << >>)
  ELSE IF site.target = "foreign" THEN
    LET r == pd_relocate_ForeignCall(inst, pc_offset)
    IN [r EXCEPT !.ev = rec \o r.ev]
  ELSE IF asserts /\ site.debug = "none" THEN
    Fatal("debug info expected", rec)
  ELSE
    LET r == pd_relocate_JavaMethod(method, asserts, next_call_type, pc_offset,
                                    invoke_mark_pc)
        stub == IF r.st = "ok" /\ next_call_type \in {INVOKESTATIC, INVOKESPECIAL}
                THEN << Ev("emit_to_interp_stub", pc_offset, "", -1) >>
                ELSE << >>
    IN [r EXCEPT !.ev = rec \o r.ev \o stub]

(* _next_call_type after site_Call returned *)
site_Call_NoReset(next_call_type) == next_call_type

site_Call_next_call_type(next_call_type) == INVOKE_INVALID

(* site_Call were it to leave the safepoint region open *)
site_Call_tail_NoEnd(site, pc_offset, inst) == << >>

(* The calls site_Call makes after the reset *)
site_Call_tail(site, pc_offset, inst) ==
  IF site.debug # "none"
  THEN << Ev("end_safepoint", pd_next_offset(inst, pc_offset), "", -1) >>
  ELSE << >>

SafepointReasons == {"SAFEPOINT", "CALL", "IMPLICIT_EXCEPTION"}
NonSafepointReasons == {"METHOD_START", "METHOD_END", "LINE_NUMBER"}

(* site_Safepoint were it to record what site_Infopoint records *)
site_Safepoint_NoOopMap(site, pc_offset, asserts) ==
  Ok(<< Ev("add_non_safepoint", pc_offset, "", -1), Ev("end_non_safepoint", pc_offset, "", -1) >>)

site_Safepoint(site, pc_offset, asserts) ==
  IF site.debug = "none" THEN
    IF asserts THEN Fatal("debug info expected", << >>)
    ELSE Crash("DebugInfo::referenceMap(NULL)", << >>)
  ELSE Ok(RecordSafepoint(site.debug, pc_offset)
          \o << Ev("end_safepoint", pc_offset, "", -1) >>)

site_Infopoint(site, pc_offset, asserts) ==
  IF site.debug = "none" THEN
    IF asserts THEN Fatal("debug info expected", << >>)
    ELSE Crash("DebugInfo::bytecodePosition(NULL)",
               << Ev("add_non_safepoint", pc_offset, "", -1) >>)
  ELSE Ok(<< Ev("add_non_safepoint", pc_offset, "", -1) >>
          \o (IF site.debug = "frame"
              THEN << Ev("describe_scope", pc_offset, "frame", -1) >> ELSE << >>)
          \o << Ev("end_non_safepoint", pc_offset, "", -1) >>)

site_DataPatch(site, pc_offset, asserts, constants_size) ==
  IF site.ref = "ObjectConstant" THEN
    Ok(<< Ev("pd_patch_OopConstant", pc_offset, "", -1) >>)
  ELSE IF site.ref = "MetaspaceConstant" THEN
    Ok(<< Ev("record_metadata_in_patch", pc_offset, "", -1) >>)
  ELSE IF site.ref = "OtherConstant" THEN
    Fatal("unknown constant type in data patch", << >>)
  ELSE IF site.ref = "DataSectionReference" THEN
    IF asserts /\ ~(0 <= site.offset /\ site.offset < constants_size)
    THEN Fatal("data offset points outside data section", << >>)
    ELSE Ok(<< Ev("pd_patch_DataSectionReference", pc_offset, "", site.offset) >>)
  ELSE Fatal("unknown data patch type", << >>)

(* EntryLabel were every entry point stored under CodeOffsets::Entry *)
EntryLabel_AllEntry(id) == "Entry"

EntryLabel(id) ==
  IF id = UNVERIFIED_ENTRY THEN "Entry"
  ELSE IF id = VERIFIED_ENTRY THEN "Verified_Entry"
  ELSE IF id = OSR_ENTRY THEN "OSR_Entry"
  ELSE IF id = EXCEPTION_HANDLER_ENTRY THEN "Exceptions"
  ELSE "Deopt"

EntryIds ==
  {UNVERIFIED_ENTRY, VERIFIED_ENTRY, OSR_ENTRY, EXCEPTION_HANDLER_ENTRY, DEOPT_HANDLER_ENTRY}
PollIds == {POLL_NEAR, POLL_FAR, POLL_RETURN_NEAR, POLL_RETURN_FAR}
Labels == {"Entry", "Verified_Entry", "OSR_Entry", "Exceptions", "Deopt"}

(* site_Mark were an entry-point Mark to clear the pending kind *)
site_Mark_EntryResets(site, pc_offset, next_call_type, invoke_mark_pc, offsets) ==
  [r |-> Ok(<< >>),
   nct |-> IF site.has_id /\ site.id \in InvokeKinds THEN site.id
           ELSE IF site.has_id /\ site.id \in EntryIds THEN INVOKE_INVALID
           ELSE next_call_type,
   imp |-> IF site.has_id /\ site.id \in InvokeKinds THEN pc_offset ELSE invoke_mark_pc,
   off |-> offsets]

(* site_Mark: the new (_next_call_type, _invoke_mark_pc, _offsets) and calls  *)
site_Mark(site, pc_offset, next_call_type, invoke_mark_pc, offsets) ==
  LET same == [r |-> Ok(<< >>), nct |-> next_call_type, imp |-> invoke_mark_pc,
               off |-> offsets]
  IN
  IF ~site.has_id THEN same
  ELSE IF site.id \in EntryIds THEN
    [same EXCEPT !.off = [offsets EXCEPT ![EntryLabel(site.id)] = pc_offset]]
  ELSE IF site.id \in InvokeKinds THEN
    [same EXCEPT !.nct = site.id, !.imp = pc_offset]
  ELSE IF site.id \in PollIds THEN
    [same EXCEPT !.r = Ok(<< Ev("pd_relocate_poll", pc_offset, "", site.id) >>)]
  ELSE [same EXCEPT !.r = Fatal("ShouldNotReachHere", << >>)]

(* The dispatch of initialize_buffer's site loop: the routine a site goes to  *)
Routine(site) ==
  IF site.cls = "Call" THEN "site_Call"
  ELSE IF site.cls = "Infopoint" THEN
    IF site.reason \in SafepointReasons THEN "site_Safepoint" ELSE "site_Infopoint"
  ELSE IF site.cls = "DataPatch" THEN "site_DataPatch"
  ELSE IF site.cls = "Mark" THEN "site_Mark"
  ELSE "fatal"

(* One site handed to its routine: what the routine returns and the fields it *)
(* leaves behind.                                                             *)
ProcessSite(site, pc_offset, inst, method, asserts, next_call_type, invoke_mark_pc, offsets, constants_size) ==
  LET keep(r) == [r |-> r, nct |-> next_call_type, imp |-> invoke_mark_pc,
                  off |-> offsets]
      routine == Routine(site)
  IN
  IF routine = "site_Call" THEN
    LET b == site_Call_body(site, pc_offset, inst, method, asserts, next_call_type,
                            invoke_mark_pc)
    IN IF b.st = "ok"
       THEN [r |-> Ok(b.ev \o site_Call_tail(site, pc_offset, inst)),
             nct |-> site_Call_next_call_type(next_call_type),
             imp |-> invoke_mark_pc, off |-> offsets]
       ELSE keep(b)
  ELSE IF routine = "site_Safepoint" THEN keep(site_Safepoint(site, pc_offset, asserts))
  ELSE IF routine = "site_Infopoint" THEN
    IF asserts /\ site.reason \notin NonSafepointReasons
    THEN keep(Fatal("unexpected infopoint reason", << >>))
    ELSE keep(site_Infopoint(site, pc_offset, asserts))
  ELSE IF routine = "site_DataPatch" THEN
    keep(site_DataPatch(site, pc_offset, asserts, constants_size))
  ELSE IF routine = "site_Mark" THEN
    site_Mark(site, pc_offset, next_call_type, invoke_mark_pc, offsets)
  ELSE keep(Fatal("unexpected Site subclass", << >>))

(* The loop index after a site was processed *)
NextSiteSkipping(i) == i + 2

NextSite(i) == i + 1

(* estimate_stub_entries were it to count the INVOKESPECIAL Marks only *)
estimate_stub_entries_SpecialOnly(ss) ==
  Cardinality({ k \in 1..Len(ss) :
                  ss[k].cls = "Mark" /\ ss[k].has_id /\ ss[k].id = INVOKESPECIAL })

(* estimate_stub_entries: the Marks tagged INVOKESTATIC or INVOKESPECIAL *)
estimate_stub_entries(ss) ==
  Cardinality({ k \in 1..Len(ss) :
                  ss[k].cls = "Mark" /\ ss[k].has_id /\
                  ss[k].id \in {INVOKESTATIC, INVOKESPECIAL} })

----------------------------------------------------------------------------
(* Code Installer: CodeInstaller::install and the phases it runs              *)

Assumption(klass, leaf) == [klass |-> klass, leaf |-> leaf]

AssumptionClasses ==
  {"MethodContents", "NoFinalizableSubclass", "ConcreteSubtype", "ConcreteMethod",
   "CallSiteTargetValue"}

(* DependencyOf were every assumption an evol_method dependency *)
DependencyOf_AlwaysEvol(a) == "assert_evol_method"

(* The Dependencies assertion one assumption makes (assumption_* routines);   *)
(* leaf: a ConcreteSubtype whose context is the subtype itself.               *)
DependencyOf(a) ==
  IF a.klass = "MethodContents" THEN "assert_evol_method"
  ELSE IF a.klass = "NoFinalizableSubclass" THEN "assert_has_no_finalizable_subclasses"
  ELSE IF a.klass = "ConcreteSubtype" THEN
    IF a.leaf THEN "assert_leaf_type" ELSE "assert_abstract_with_unique_concrete_subtype"
  ELSE IF a.klass = "ConcreteMethod" THEN "assert_unique_concrete_method"
  ELSE "assert_call_site_target_value"

(* initialize_assumptions: the loop over the list from entry i on, deps being *)
(* the assertions made so far; a null entry is skipped, an entry of another   *)
(* class is fatal.                                                            *)
RECURSIVE initialize_assumptions(_, _, _)
initialize_assumptions(list, i, deps) ==
  IF i > Len(list) THEN [st |-> "ok", deps |-> deps]
  ELSE IF list[i].klass = "null" THEN initialize_assumptions(list, i + 1, deps)
  ELSE IF list[i].klass \in AssumptionClasses THEN
    initialize_assumptions(list, i + 1,
                           Append(deps, [dep |-> DependencyOf(list[i]), of |-> i]))
  ELSE [st |-> "fatal", deps |-> deps]

(* initialize_fields: the pre-calculated constants section size *)
ConstantsSize_NoAlign(length, alignment) == length

ConstantsSize(length, alignment) ==
  IF length > 0 THEN align_size_up(length, alignment) ELSE length

(* initialize_buffer: bytes memcpy writes into the instruction section, given *)
(* whether allocates2(end_pc) held                                            *)
CopyCode_BeforeCheck(fits, length) == length

CopyCode(fits, length) == IF fits THEN length ELSE 0

(* The Dependencies object each registration call is handed:                  *)
(* GraalEnv::register_method gets _dependencies, RuntimeStub::new_runtime_stub *)
(* has no such parameter.                                                     *)
DependenciesHandedOver(stub, deps) == IF stub THEN << >> ELSE deps

(* cb->code_begin() - cb->content_begin() of the blob made from the buffer:   *)
(* the constants section comes first and the instructions start at the next   *)
(* section-aligned offset.                                                    *)
ContentToCode(consts_size, alignment) == align_size_up(consts_size, alignment)

(* The results the runtime registration call reports for an nmethod *)
RegisterResults == {"ok", "code_too_large"}

PhaseOrder ==
  << "acquire", "assumptions", "layout", "sites", "handlers", "register" >>

(* What install() returns when initialize_buffer returned false *)
LayoutFailureResult_CacheFull == "cache_full"

LayoutFailureResult == "code_too_large"

Abort(r) ==
  /\ pc' = r.st
  /\ fatal_msg' = r.msg

inputVars ==
  << sites, assumptions, is_stub, code_length, target_code_size, data_length,
     handlers, debug_build, capacity, consts_alignment >>

(* BufferBlob* buffer_blob = GraalRuntime::initialize_buffer_blob() *)
AcquireBuffer ==
  /\ pc = "acquire"
  /\ \E available \in BOOLEAN :
       IF available
       THEN /\ pc' = "assumptions"
            /\ phases' = Append(phases, "acquire")
            /\ UNCHANGED result
       ELSE /\ pc' = "done"
            /\ result' = "cache_full"
            /\ UNCHANGED phases
  /\ UNCHANGED << inputVars, fatal_msg, _next_call_type, _invoke_mark_pc, _code_size,
                  _constants_size, _offsets, insts_end, insts_copied, consts_end,
                  data_read, stub_entries, site_i, dispatched, log, _dependencies,
                  _exception_handler_table, cb, registered_deps, nonInstallerVars >>

InitializeAssumptions ==
  /\ pc = "assumptions"
  /\ LET r == initialize_assumptions(assumptions, 1, << >>)
     IN /\ _dependencies' = r.deps
        /\ IF r.st = "ok"
           THEN /\ pc' = "fields"
                /\ phases' = Append(phases, "assumptions")
                /\ UNCHANGED fatal_msg
           ELSE /\ Abort(Fatal("unexpected Assumption subclass", << >>))
                /\ UNCHANGED phases
  /\ UNCHANGED << inputVars, _next_call_type, _invoke_mark_pc, _code_size,
                  _constants_size, _offsets, insts_end, insts_copied, consts_end,
                  data_read, stub_entries, site_i, dispatched, log,
                  _exception_handler_table, result, cb, registered_deps, nonInstallerVars >>

(* initialize_fields; data_alignment is HotSpotCompiledCode::dataSectionAlignment *)
InitializeFields ==
  /\ pc = "fields"
  /\ \E data_alignment \in {1, consts_alignment, 2 * consts_alignment} :
       /\ _code_size' = target_code_size
       /\ IF data_alignment <= consts_alignment
          THEN /\ _constants_size' = ConstantsSize(data_length, consts_alignment)
               /\ _next_call_type' = INVOKE_INVALID
               /\ pc' = "layout"
               /\ UNCHANGED fatal_msg
          ELSE /\ Abort(Fatal("Alignment inside constants section is restricted", << >>))
               /\ UNCHANGED << _constants_size, _next_call_type >>
  /\ UNCHANGED << inputVars, phases, _invoke_mark_pc, _offsets, insts_end, insts_copied,
                  consts_end, data_read, stub_entries, site_i, dispatched, log,
                  _dependencies, _exception_handler_table, result, cb, registered_deps,
                  nonInstallerVars >>

(* A data section patch: the calls it makes, or the fatal error *)
DataSectionPatch(kind) ==
  IF kind = "MetaspaceConstant" THEN Ok(<< Ev("record_metadata_in_patch", 0, "data", -1) >>)
  ELSE IF kind = "ObjectConstant" THEN
    Ok(<< Ev("find_index", 0, "data", -1), Ev("relocate", 0, "oop_in_consts", -1) >>)
  ELSE IF kind = "CompressedObjectConstant" THEN
    Fatal("unexpected compressed oop in data section", << Ev("find_index", 0, "data", -1) >>)
  ELSE IF kind = "none" THEN Ok(<< >>)
  ELSE Fatal("ShouldNotReachHere", << >>)

PatchKinds ==
  {"none", "MetaspaceConstant", "ObjectConstant", "CompressedObjectConstant", "Other"}

(* initialize_buffer up to its site loop: sizes, the capacity check, the      *)
(* copies of code and data and the data section patches (at most one here; a  *)
(* patch sits at an offset of the data section, so an empty section has none) *)
LayoutBuffer ==
  /\ pc = "layout"
  /\ stub_entries' = estimate_stub_entries(sites)
  /\ LET fits == _code_size <= capacity
     IN /\ insts_copied' = CopyCode(fits, code_length)
        /\ IF ~fits
           THEN /\ pc' = "done"
                /\ result' = LayoutFailureResult
                /\ UNCHANGED << insts_end, consts_end, data_read, log, fatal_msg,
                                phases, site_i >>
           ELSE /\ insts_end' = _code_size
                /\ data_read' = _constants_size
                /\ consts_end' = _constants_size
                /\ UNCHANGED result
                /\ \E kind \in (IF data_length > 0 THEN PatchKinds ELSE {"none"}) :
                     LET r == DataSectionPatch(kind)
                     IN /\ log' = log \o r.ev
                        /\ IF r.st = "ok"
                           THEN /\ pc' = "sites"
                                /\ site_i' = 0
                                /\ phases' = Append(phases, "layout")
                                /\ UNCHANGED fatal_msg
                           ELSE /\ Abort(r)
                                /\ UNCHANGED << phases, site_i >>
  /\ UNCHANGED << inputVars, _next_call_type, _invoke_mark_pc, _code_size,
                  _constants_size, _offsets, dispatched, _dependencies,
                  _exception_handler_table, cb, registered_deps, nonInstallerVars >>

InstKinds == {"call", "jump", "sethi", "other"}

MethodKinds == {"instance", "static", "unresolved"}

(* One iteration of initialize_buffer's site loop; inst is the kind of the    *)
(* instruction the code array holds at the site's offset, method the kind of  *)
(* the method a Java call names.                                              *)
SiteStep ==
  /\ pc = "sites"
  /\ site_i < Len(sites)
  /\ LET site == sites[site_i + 1]
         pc_offset == pcOffset(site_i + 1)
     IN \E inst \in (IF site.cls = "Call" THEN InstKinds ELSE {"other"}),
           method \in (IF IsJavaCall(site) THEN MethodKinds ELSE {"unresolved"}) :
          LET p == ProcessSite(site, pc_offset, inst, method, debug_build,
                               _next_call_type, _invoke_mark_pc, _offsets,
                               _constants_size)
          IN /\ dispatched' = Append(dispatched, [i |-> site_i + 1,
                                                  routine |-> Routine(site)])
             /\ log' = log \o p.r.ev
             /\ _next_call_type' = p.nct
             /\ _invoke_mark_pc' = p.imp
             /\ _offsets' = p.off
             /\ IF p.r.st = "ok"
                THEN /\ site_i' = NextSite(site_i)
                     /\ UNCHANGED << pc, fatal_msg >>
                ELSE /\ Abort(p.r)
                     /\ UNCHANGED site_i
  /\ UNCHANGED << inputVars, phases, _code_size, _constants_size, insts_end,
                  insts_copied, consts_end, data_read, stub_entries, _dependencies,
                  _exception_handler_table, result, cb, registered_deps, nonInstallerVars >>

(* The site loop ends and initialize_buffer returns true *)
SitesDone ==
  /\ pc = "sites"
  /\ site_i >= Len(sites)
  /\ pc' = "handlers"
  /\ phases' = Append(phases, "sites")
  /\ UNCHANGED << inputVars, fatal_msg, _next_call_type, _invoke_mark_pc, _code_size,
                  _constants_size, _offsets, insts_end, insts_copied, consts_end,
                  data_read, stub_entries, site_i, dispatched, log, _dependencies,
                  _exception_handler_table, result, cb, registered_deps, nonInstallerVars >>

HandlerTableEntry(a, pco, depth) == [len_or_bci |-> a, pco |-> pco, scope_depth |-> depth]

RECURSIVE process_exception_handlers(_, _, _)
process_exception_handlers(hs, i, table) ==
  IF i > Len(hs) THEN table
  ELSE process_exception_handlers(hs, i + 1,
         table \o << HandlerTableEntry(1, hs[i].pcOffset, 0),
                     HandlerTableEntry(-1, hs[i].handlerPos, 0) >>)

ProcessExceptionHandlers ==
  /\ pc = "handlers"
  /\ _exception_handler_table' = process_exception_handlers(handlers, 1, << >>)
  /\ pc' = "register"
  /\ phases' = Append(phases, "handlers")
  /\ UNCHANGED << inputVars, fatal_msg, _next_call_type, _invoke_mark_pc, _code_size,
                  _constants_size, _offsets, insts_end, insts_copied, consts_end,
                  data_read, stub_entries, site_i, dispatched, log, _dependencies,
                  result, cb, registered_deps, nonInstallerVars >>

(* RuntimeStub::new_runtime_stub or GraalEnv::register_method *)
Register ==
  /\ pc = "register"
  /\ registered_deps' = DependenciesHandedOver(is_stub, _dependencies)
  /\ phases' = Append(phases, "register")
  /\ pc' = "check"
  /\ IF is_stub
     THEN /\ cb' = "RuntimeStub"
          /\ result' = "ok"
     ELSE \E r \in RegisterResults :
            /\ result' = r
            /\ cb' = IF r = "ok" THEN "nmethod" ELSE NULL
  /\ UNCHANGED << inputVars, fatal_msg, _next_call_type, _invoke_mark_pc, _code_size,
                  _constants_size, _offsets, insts_end, insts_copied, consts_end,
                  data_read, stub_entries, site_i, dispatched, log, _dependencies,
                  _exception_handler_table, nonInstallerVars >>

(* The guarantee on the constants section size, and the return *)
PostCheck ==
  /\ pc = "check"
  /\ IF cb # NULL /\ ContentToCode(consts_end, consts_alignment) # _constants_size
     THEN Abort(Fatal("constants size mismatch", << >>))
     ELSE /\ pc' = "done"
          /\ UNCHANGED fatal_msg
  /\ UNCHANGED << inputVars, phases, _next_call_type, _invoke_mark_pc, _code_size,
                  _constants_size, _offsets, insts_end, insts_copied, consts_end,
                  data_read, stub_entries, site_i, dispatched, log, _dependencies,
                  _exception_handler_table, result, cb, registered_deps, nonInstallerVars >>

----------------------------------------------------------------------------
(* The states before install() is called *)

SiteAlphabet ==
  { CallSite(t, d) : t \in {"method", "foreign"}, d \in {"none", "frame"} }
  \cup { MarkSite(id) : id \in {INVOKEVIRTUAL, INVOKESTATIC, INLINE_INVOKE,
                                VERIFIED_ENTRY, CARD_TABLE_ADDRESS} }
  \cup { OtherSite, CallSite("foreign", "map"),
         InfopointSite("SAFEPOINT", "frame"), InfopointSite("METHOD_START", "frame"),
         DataPatchSite("DataSectionReference", 0), MarkSite(POLL_NEAR), MarkNoId }

AssumptionAlphabet ==
  { Assumption(k, FALSE) : k \in AssumptionClasses \cup {"null", "Other"} }
  \cup { Assumption("ConcreteSubtype", TRUE) }

InstallAssumptions ==
  { Assumption("MethodContents", FALSE), Assumption("ConcreteSubtype", TRUE),
    Assumption("null", FALSE), Assumption("Other", FALSE) }

HandlerAlphabet == { [pcOffset |-> p, handlerPos |-> h] : p \in {0, 64}, h \in {128, 192} }

DataLengths == {0, 1, 8, 9}

Alignments == {8, 16}

NoOffsets == [l \in Labels |-> -1]

(* The installer is constructed (its fields not yet set) and install() is     *)
(* about to run on a descriptor of the given shape.                           *)
InstallerInit(siteLists, assumptionLists, stubs, sizes, extras, lengths, aligns, handlerLists, builds, garbage) ==
  /\ sites \in siteLists
  /\ assumptions \in assumptionLists
  /\ is_stub \in stubs
  /\ target_code_size \in sizes
  /\ code_length \in { target_code_size + e : e \in extras }
  /\ data_length \in lengths
  /\ handlers \in handlerLists
  /\ debug_build \in builds
  /\ capacity = InstsCapacity
  /\ consts_alignment \in aligns
  /\ pc = "acquire"
  /\ fatal_msg = ""
  /\ phases = << >>
  /\ _next_call_type \in garbage
  /\ _invoke_mark_pc = -1
  /\ _code_size = 0
  /\ _constants_size = 0
  /\ _offsets = NoOffsets
  /\ insts_end = 0
  /\ insts_copied = 0
  /\ consts_end = 0
  /\ data_read = 0
  /\ stub_entries = 0
  /\ site_i = 0
  /\ dispatched = << >>
  /\ log = << >>
  /\ _dependencies = << >>
  /\ _exception_handler_table = << >>
  /\ result = "none"
  /\ cb = NULL
  /\ registered_deps = << >>

(* No installation is modelled *)
InstallerIdle ==
  /\ InstallerInit({<< >>}, {<< >>}, {FALSE}, {0}, {0}, {0}, {8}, {<< >>}, {FALSE},
                {INVOKE_INVALID})

SizingIdle ==
  /\ dp_pc = "idle"
  /\ dp_platform = "c1x"
  /\ dp_sites = << >>
  /\ dp_i = 0
  /\ dp_alignment = 8
  /\ dp_constants_size = 0
  /\ dp_consts_end = 0

OopMapIdle ==
  /\ om_pc = "idle"
  /\ om_arch = "x86"
  /\ om_register_map = NoRegisterMap
  /\ om_frame_map = << >>
  /\ om_entries = << >>

ScopeIdle ==
  /\ vo_pc = "idle"
  /\ vo_values = << >>
  /\ vo_roots = << >>
  /\ vo_objects = << >>
  /\ vo_stack = << >>
  /\ vo_returned = << >>
  /\ vo_site = "site_Call"

RecordScopeIdle ==
  /\ rs_pc = "idle"
  /\ rs_build = FALSE
  /\ rs_position = << >>
  /\ rs_i = 0
  /\ rs_taken = {}
  /\ rs_locals = << >>
  /\ rs_expressions = << >>
  /\ rs_reexecute = FALSE
  /\ rs_scope = << >>
  /\ rs_chain = << >>
  /\ rs_depth = 0

LaterIdle == RecordScopeIdle /\ cc_installers = << >> /\ cc_code_cache = << >>

InstallNext ==
  \/ AcquireBuffer
  \/ InitializeAssumptions
  \/ InitializeFields
  \/ LayoutBuffer
  \/ SiteStep
  \/ SitesDone
  \/ ProcessExceptionHandlers
  \/ Register
  \/ PostCheck

(* install() on descriptors that vary in everything but their site list *)
InstallSiteLists ==
  { << >>, << OtherSite >>, << MarkSite(INVOKESTATIC), CallSite("method", "frame") >> }

Init ==
  /\ InstallerInit(InstallSiteLists, SeqsUpTo(InstallAssumptions, MaxAssumptions),
                   BOOLEAN, {InstsCapacity, InstsCapacity + 1}, {0, 1}, DataLengths,
                   Alignments, SeqsUpTo({[pcOffset |-> 0, handlerPos |-> 128]}, MaxHandlers),
                   BOOLEAN, {INVOKEVIRTUAL})
  /\ SizingIdle /\ OopMapIdle /\ ScopeIdle /\ LaterIdle

Next == InstallNext

Spec == Init /\ [][Next]_vars

(* install() on descriptors that vary in their site list *)
InitSites ==
  /\ InstallerInit(SeqsUpTo(SiteAlphabet, MaxSites), {<< >>}, {FALSE},
                   {InstsCapacity}, {0}, {0}, {8}, {<< >>}, BOOLEAN,
                   {INVOKEVIRTUAL})
  /\ SizingIdle /\ OopMapIdle /\ ScopeIdle /\ LaterIdle

SpecSites == InitSites /\ [][Next]_vars

----------------------------------------------------------------------------
(* Constants section sizing: the estimate of the older installer's            *)
(* initialize_fields against what the data patch routines put into the        *)
(* constants section (c1x site_DataPatch, SPARC pd_site_DataPatch).           *)

BytesPerLong == 8

MaxPatchSites == 2

(* kind: Kind::typeChar of the constant; alignment: DataPatch::alignment *)
SizingSite(cls, kind, inlined, alignment) ==
  [cls |-> cls, kind |-> kind, inlined |-> inlined, alignment |-> alignment]

PatchSite(kind, inlined, alignment) == SizingSite("DataPatch", kind, inlined, alignment)

(* A site that is no DataPatch *)
PlainSite == SizingSite("Mark", "", FALSE, 0)

IntSizedKinds == {"z", "b", "s", "c", "i"}

(* (very) conservative estimate: each site needs a constant section entry *)
c1x_constants_size(ss) == Len(ss) * BytesPerLong

(* c1x site_DataPatch: whether it returned, and _constants->end() after it *)
c1x_site_DataPatch(site, section_end) ==
  IF site.kind \in IntSizedKinds THEN [st |-> "fatal", end |-> section_end]
  ELSE IF site.kind \in {"f", "l", "d"} THEN
    [st |-> "ok", end |-> section_end + BytesPerLong]
  ELSE IF site.kind = "a" THEN [st |-> "ok", end |-> section_end]
  ELSE [st |-> "fatal", end |-> section_end]

(* SPARC pd_site_DataPatch; emit_int64 and emit_address store 8 bytes at the  *)
(* section's end and advance it.                                              *)
pd_site_DataPatch(site, section_end, section_alignment) ==
  LET size == IF site.alignment > 0 THEN align_size_up(section_end, site.alignment)
              ELSE section_end
      emit == IF site.alignment > section_alignment
              THEN [st |-> "fatal", end |-> section_end]
              ELSE [st |-> "ok", end |-> size + BytesPerLong]
  IN
  IF site.kind \in IntSizedKinds THEN [st |-> "fatal", end |-> section_end]
  ELSE IF site.kind \in {"f", "j", "d"} THEN
    IF site.inlined THEN [st |-> "ok", end |-> section_end] ELSE emit
  ELSE IF site.kind = "a" THEN emit
  ELSE [st |-> "fatal", end |-> section_end]

SizingFields ==
  /\ dp_pc = "fields"
  /\ dp_constants_size' = c1x_constants_size(dp_sites)
  /\ dp_pc' = "sites"
  /\ UNCHANGED << dp_platform, dp_sites, dp_i, dp_alignment, dp_consts_end,
                  installerVars, laterVars, oopMapVars, scopeVars >>

SizingSiteStep ==
  /\ dp_pc = "sites"
  /\ dp_i < Len(dp_sites)
  /\ LET site == dp_sites[dp_i + 1]
         r == IF site.cls # "DataPatch" THEN [st |-> "ok", end |-> dp_consts_end]
              ELSE IF dp_platform = "c1x" THEN c1x_site_DataPatch(site, dp_consts_end)
              ELSE pd_site_DataPatch(site, dp_consts_end, dp_alignment)
     IN /\ dp_consts_end' = r.end
        /\ IF r.st = "ok"
           THEN dp_i' = dp_i + 1 /\ UNCHANGED dp_pc
           ELSE dp_pc' = "fatal" /\ UNCHANGED dp_i
  /\ UNCHANGED << dp_platform, dp_sites, dp_alignment, dp_constants_size,
                  installerVars, laterVars, oopMapVars, scopeVars >>

SizingSitesDone ==
  /\ dp_pc = "sites"
  /\ dp_i >= Len(dp_sites)
  /\ dp_pc' = "done"
  /\ UNCHANGED << dp_platform, dp_sites, dp_i, dp_alignment, dp_constants_size,
                  dp_consts_end, installerVars, laterVars, oopMapVars, scopeVars >>

SizingNext == SizingFields \/ SizingSiteStep \/ SizingSitesDone

SizingAlphabet ==
  { PatchSite(k, inl, al) : k \in {"i", "l", "j", "a"}, inl \in BOOLEAN, al \in {0, 8, 16} }
  \cup { PlainSite }

InitSizing ==
  /\ dp_pc = "fields"
  /\ dp_platform \in {"c1x", "sparc"}
  /\ dp_sites \in SeqsUpTo(SizingAlphabet, MaxPatchSites)
  /\ dp_i = 0
  /\ dp_alignment \in Alignments
  /\ dp_constants_size = 0
  /\ dp_consts_end = 0
  /\ InstallerIdle /\ OopMapIdle /\ ScopeIdle /\ LaterIdle

SpecSizing == InitSizing /\ [][SizingNext]_vars

----------------------------------------------------------------------------
(* Reference Map Builder: create_oop_map and set_vmreg_oops, and the older    *)
(* c1x create_oop_map. A bit set is its array of words, a word the set of the *)
(* positions of its 1 bits.                                                   *)

MapWordBits == 64

(* VMRegImpl::slots_per_word on a 64-bit VM (c1x writes the 2 out) *)
slots_per_word == 2

(* The sizes of the register files, kept small *)
RegisterImpl_number_of_registers == 2
XMMRegisterImpl_number_of_registers == 1
FloatRegisterImpl_number_of_registers == 1

MaxSetBits == 3
MaxFrameWords == 1

is_bit_set(words, i) == (i % MapWordBits) \in words[(i \div MapWordBits) + 1]

bitset_size(words) == Len(words) * MapWordBits

(* A VMReg: a slot of a register of a bank, or a stack slot *)
as_VMReg(bank, i) == [bank |-> bank, reg |-> i, slot |-> 0]
next(reg, n) == [reg EXCEPT !.slot = @ + n]
stack2reg(k) == [bank |-> "stack", reg |-> 0, slot |-> k]

(* One OopMap entry, with the map and index it was made for *)
MapEntry(kind, reg, idx, map) == [kind |-> kind, reg |-> reg, idx |-> idx, map |-> map]

set_vmreg_oops_IgnoreNarrow(reg, words, idx, map) ==
  IF is_bit_set(words, 3 * idx) THEN << MapEntry("oop", reg, idx, map) >>
  ELSE << MapEntry("value", reg, idx, map) >>

set_vmreg_oops(reg, words, idx, map) ==
  LET is_oop == is_bit_set(words, 3 * idx)
      narrow1 == is_bit_set(words, 3 * idx + 1)
      narrow2 == is_bit_set(words, 3 * idx + 2)
  IN
  IF is_oop THEN
    IF narrow1 \/ narrow2 THEN
      (IF narrow1 THEN << MapEntry("narrowoop", reg, idx, map) >> ELSE << >>)
      \o (IF narrow2 THEN << MapEntry("narrowoop", next(reg, 1), idx, map) >> ELSE << >>)
    ELSE << MapEntry("oop", reg, idx, map) >>
  ELSE << MapEntry("value", reg, idx, map) >>

(* for (i = 0; i < RegisterImpl::number_of_registers; i++) *)
RECURSIVE register_loop(_, _)
register_loop(words, i) ==
  IF i >= RegisterImpl_number_of_registers THEN << >>
  ELSE set_vmreg_oops(as_VMReg("cpu", i), words, i, "register")
       \o register_loop(words, i + 1)

(* The two nested XMM loops, k = 4 * i + j *)
RECURSIVE xmm_loop(_, _)
xmm_loop(words, k) ==
  IF k >= 4 * XMMRegisterImpl_number_of_registers THEN << >>
  ELSE set_vmreg_oops(next(as_VMReg("xmm", k \div 4), 2 * (k % 4)), words,
                      RegisterImpl_number_of_registers + k, "register")
       \o xmm_loop(words, k + 1)

RECURSIVE float_loop(_, _)
float_loop(words, i) ==
  IF i >= FloatRegisterImpl_number_of_registers THEN << >>
  ELSE set_vmreg_oops(as_VMReg("float", i), words,
                      RegisterImpl_number_of_registers + i, "register")
       \o float_loop(words, i + 1)

RECURSIVE frame_loop(_, _, _)
frame_loop(words, i, size) ==
  IF i >= size THEN << >>
  ELSE set_vmreg_oops(stack2reg(i * slots_per_word), words, i, "frame")
       \o frame_loop(words, i + 1, size)

(* create_oop_map without callee save info (calleeSaveInfo == NULL) *)
create_oop_map(arch, register_map, frame_map) ==
  (IF ~register_map.is_null
   THEN register_loop(register_map.words, 0)
        \o (IF arch = "x86" THEN xmm_loop(register_map.words, 0)
            ELSE float_loop(register_map.words, 0))
   ELSE << >>)
  \o frame_loop(frame_map, 0, bitset_size(frame_map) \div 3)

(* c1x: one bit for each register and each frame word *)
c1x_set_oop(reg, words, idx, map) ==
  IF is_bit_set(words, idx) THEN << MapEntry("oop", reg, idx, map) >>
  ELSE << MapEntry("value", reg, idx, map) >>

RECURSIVE c1x_register_loop(_, _)
c1x_register_loop(words, i) ==
  IF i >= RegisterImpl_number_of_registers THEN << >>
  ELSE c1x_set_oop(as_VMReg("cpu", i), words, i, "register")
       \o c1x_register_loop(words, i + 1)

RECURSIVE c1x_frame_loop(_, _, _)
c1x_frame_loop(words, i, size) ==
  IF i >= size THEN << >>
  ELSE c1x_set_oop(stack2reg(i * 2), words, i, "frame")
       \o c1x_frame_loop(words, i + 1, size)

(* c1x create_oop_map; the frame has as many words as its bit map has bits *)
c1x_create_oop_map(register_map, frame_map) ==
  (IF ~register_map.is_null THEN c1x_register_loop(register_map.words, 0) ELSE << >>)
  \o c1x_frame_loop(frame_map, 0, bitset_size(frame_map))

CreateOopMap ==
  /\ om_pc = "start"
  /\ om_entries' = IF om_arch = "c1x"
                   THEN c1x_create_oop_map(om_register_map, om_frame_map)
                   ELSE create_oop_map(om_arch, om_register_map, om_frame_map)
  /\ om_pc' = "done"
  /\ UNCHANGED << om_arch, om_register_map, om_frame_map, installerVars, laterVars, sizingVars,
                  scopeVars >>

OopMapNext == CreateOopMap

(* The indices the register loops of a builder go through *)
RegisterIndices(arch) ==
  IF arch = "c1x" THEN RegisterImpl_number_of_registers
  ELSE IF arch = "x86"
    THEN RegisterImpl_number_of_registers + 4 * XMMRegisterImpl_number_of_registers
    ELSE RegisterImpl_number_of_registers + FloatRegisterImpl_number_of_registers

BitsPerLocation(arch) == IF arch = "c1x" THEN 1 ELSE 3

RECURSIVE SubsetsUpTo(_, _)
SubsetsUpTo(S, k) ==
  IF k = 0 THEN { {} }
  ELSE LET P == SubsetsUpTo(S, k - 1) IN P \cup { T \cup {x} : T \in P, x \in S }

(* The words of the bit set of n words whose 1 bits are `bits` *)
Words(bits, n) ==
  [w \in 1..n |-> { b % MapWordBits : b \in { x \in bits : x \div MapWordBits = w - 1 } }]

(* Register maps: a bit set that has a word for every bit the loops read *)
RegisterMaps(arch) ==
  LET nbits == BitsPerLocation(arch) * RegisterIndices(arch)
      nwords == (nbits + MapWordBits - 1) \div MapWordBits
  IN { RegisterMap(Words(bits, nwords)) : bits \in SubsetsUpTo(0..(nbits - 1), MaxSetBits) }

(* Frame maps of n words: 1 bits among the first slots, the word boundary     *)
(* and the last bits                                                          *)
FrameBits(n) ==
  { b \in 0..(n * MapWordBits - 1) :
      b < 6 \/ (b >= MapWordBits - 2 /\ b < MapWordBits + 2) \/ b >= n * MapWordBits - 4 }

FrameMaps ==
  UNION { { Words(bits, n) : bits \in SubsetsUpTo(FrameBits(n), MaxSetBits) } :
          n \in 0..MaxFrameWords }

InitOopMap ==
  /\ om_pc = "start"
  /\ om_arch \in {"x86", "sparc", "c1x"}
  /\ \/ om_register_map \in RegisterMaps(om_arch) /\ om_frame_map = << >>
     \/ om_register_map = NoRegisterMap /\ om_frame_map \in FrameMaps
  /\ om_entries = << >>
  /\ InstallerIdle /\ SizingIdle /\ ScopeIdle /\ LaterIdle

SpecOopMap == InitOopMap /\ [][OopMapNext]_vars

----------------------------------------------------------------------------
(* get_scope_value on the values of one safepoint's frame: the VirtualObject  *)
(* branch and its object pool. A value is the id of a VirtualObject (1, 2,    *)
(* ...) or 0, a value of any other class; a pool record is named by its       *)
(* position in the pool.                                                      *)

MaxObjects == 2
MaxRefs == 4

ObjectIds == 1..MaxObjects

ObjectValue(id) == [id |-> id, field_values |-> << >>]

(* The activation of get_scope_value on VirtualObject id whose ObjectValue is *)
(* pool record rec, with i of its values resolved; id 0 is record_scope's     *)
(* loop over the values of the frame.                                         *)
Activation(id, rec, i) == [id |-> id, rec |-> rec, i |-> i]

(* for (i = 0; i < objects->length(); i++) if (obj->id() == id) return obj;   *)
(* the record found, 0 when there is none                                     *)
find_object_LastOnly(objects, id) ==
  IF Len(objects) > 0 /\ objects[Len(objects)].id = id THEN Len(objects) ELSE 0

find_object(objects, id) ==
  LET found == { k \in 1..Len(objects) : objects[k].id = id }
  IN IF found = {} THEN 0 ELSE CHOOSE k \in found : \A m \in found : k <= m

(* The `objects` argument of record_scope is NULL: site_Call and             *)
(* site_Safepoint pass a new GrowableArray, site_Infopoint passes NULL.       *)
objects_is_null(site) == site = "site_Infopoint"

Top == vo_stack[Len(vo_stack)]

ValuesOf(act) == IF act.id = 0 THEN vo_roots ELSE vo_values[act.id]

(* The caller takes the value returned to it: sv->field_values()->append      *)
(* for a VirtualObject, the locals/expressions of the frame otherwise         *)
TakeValue(objects, act, returned) ==
  IF act.id = 0 THEN objects
  ELSE [objects EXCEPT ![act.rec].field_values = Append(@, returned)]

Resumed(stack, n) == [stack EXCEPT ![n].i = @ + 1]

(* get_scope_value on a value that is no VirtualObject *)
ResolveValue ==
  /\ vo_pc = "run"
  /\ Top.i < Len(ValuesOf(Top))
  /\ ValuesOf(Top)[Top.i + 1] = 0
  /\ vo_returned' = Append(vo_returned, [id |-> 0, rec |-> 0])
  /\ vo_objects' = TakeValue(vo_objects, Top, 0)
  /\ vo_stack' = Resumed(vo_stack, Len(vo_stack))
  /\ UNCHANGED << vo_pc, vo_values, vo_roots, vo_site, installerVars, laterVars, sizingVars, oopMapVars >>

(* get_scope_value on a VirtualObject when `objects` is NULL: the search      *)
(* starts with objects->length(), a read through the NULL pointer, and were   *)
(* that to read 0, objects->append(sv) writes through it.                     *)
ResolveNullPool ==
  /\ vo_pc = "run"
  /\ objects_is_null(vo_site)
  /\ Top.i < Len(ValuesOf(Top))
  /\ ValuesOf(Top)[Top.i + 1] # 0
  /\ vo_pc' = "crash"
  /\ UNCHANGED << vo_values, vo_roots, vo_objects, vo_stack, vo_returned, vo_site,
                  installerVars, laterVars, sizingVars, oopMapVars >>

(* get_scope_value on a VirtualObject whose id is in the pool *)
ResolveKnown ==
  /\ vo_pc = "run"
  /\ ~objects_is_null(vo_site)
  /\ Top.i < Len(ValuesOf(Top))
  /\ LET id == ValuesOf(Top)[Top.i + 1]
         obj == find_object(vo_objects, id)
     IN /\ id # 0
        /\ obj # 0
        /\ vo_returned' = Append(vo_returned, [id |-> id, rec |-> obj])
        /\ vo_objects' = TakeValue(vo_objects, Top, obj)
        /\ vo_stack' = Resumed(vo_stack, Len(vo_stack))
  /\ UNCHANGED << vo_pc, vo_values, vo_roots, vo_site, installerVars, laterVars, sizingVars, oopMapVars >>

(* get_scope_value on a VirtualObject whose id is not in the pool: the new    *)
(* ObjectValue is appended and the loop over its values starts                *)
ResolveNew ==
  /\ vo_pc = "run"
  /\ ~objects_is_null(vo_site)
  /\ Top.i < Len(ValuesOf(Top))
  /\ LET id == ValuesOf(Top)[Top.i + 1]
     IN /\ id # 0
        /\ find_object(vo_objects, id) = 0
        /\ vo_objects' = Append(vo_objects, ObjectValue(id))
        /\ vo_stack' = Append(vo_stack, Activation(id, Len(vo_objects) + 1, 0))
  /\ UNCHANGED << vo_pc, vo_values, vo_roots, vo_returned, vo_site, installerVars, laterVars, sizingVars,
                  oopMapVars >>

(* The loop over a VirtualObject's values is over: return sv *)
ReturnObject ==
  /\ vo_pc = "run"
  /\ Len(vo_stack) > 1
  /\ Top.i >= Len(ValuesOf(Top))
  /\ LET caller == vo_stack[Len(vo_stack) - 1]
     IN /\ vo_returned' = Append(vo_returned, [id |-> Top.id, rec |-> Top.rec])
        /\ vo_objects' = TakeValue(vo_objects, caller, Top.rec)
        /\ vo_stack' = Resumed(SubSeq(vo_stack, 1, Len(vo_stack) - 1), Len(vo_stack) - 1)
  /\ UNCHANGED << vo_pc, vo_values, vo_roots, vo_site, installerVars, laterVars, sizingVars, oopMapVars >>

(* Every value of the frame is resolved *)
ScopeDone ==
  /\ vo_pc = "run"
  /\ Len(vo_stack) = 1
  /\ Top.i >= Len(vo_roots)
  /\ vo_pc' = "done"
  /\ UNCHANGED << vo_values, vo_roots, vo_objects, vo_stack, vo_returned, vo_site,
                  installerVars, laterVars, sizingVars, oopMapVars >>

ScopeNext ==
  ResolveValue \/ ResolveNullPool \/ ResolveKnown \/ ResolveNew \/ ReturnObject \/ ScopeDone

(* The debug-info graphs with at most MaxRefs values in all: e lists the      *)
(* values as (holder, value), holder 0 being the frame                        *)
HeldBy(e, h) ==
  LET held == SelectSeq(e, LAMBDA x : x[1] = h)
  IN [k \in 1..Len(held) |-> held[k][2]]

Graphs ==
  { [roots |-> HeldBy(e, 0), values |-> [id \in ObjectIds |-> HeldBy(e, id)]] :
      e \in SeqsUpTo((0..MaxObjects) \X (0..MaxObjects), MaxRefs) }

InitScope ==
  /\ vo_pc = "run"
  /\ \E g \in Graphs : vo_roots = g.roots /\ vo_values = g.values
  /\ vo_objects = << >>
  /\ vo_stack = << Activation(0, 0, 0) >>
  /\ vo_returned = << >>
  /\ vo_site \in {"site_Call", "site_Safepoint", "site_Infopoint"}
  /\ InstallerIdle /\ SizingIdle /\ OopMapIdle /\ LaterIdle

SpecScope == InitScope /\ [][ScopeNext]_vars

----------------------------------------------------------------------------
(* Properties of the site processor (SpecSites)                              *)

HasEvent(op, at, arg, mark) == \E n \in 1..Len(log) : log[n] = Ev(op, at, arg, mark)

(* The index of the last Call site before site k, 0 when there is none *)
LastCallBefore(k) ==
  LET calls == { j \in 1..(k - 1) : sites[j].cls = "Call" }
  IN IF calls = {} THEN 0 ELSE CHOOSE j \in calls : \A m \in calls : m <= j

(* No invoke-kind Mark lies between the previous Call (or the start) and k *)
NoInvokeMarkFor(k) == \A m \in (LastCallBefore(k) + 1)..(k - 1) : ~IsInvokeMark(sites[m])

SiteAborted(k) == site_i = k - 1 /\ Len(dispatched) = k /\ pc = "fatal"

(* C1: a Call naming a Java method that directly follows a Mark tagged         *)
(* INVOKEVIRTUAL has, once it is processed, a virtual_call relocation at the    *)
(* call's offset that carries the mark's offset; a Call naming a Java method    *)
(* with no invoke-kind Mark since the previous Call (or since the start) is     *)
(* never processed to its end: handing it to site_Call ends in a fatal error.   *)
C1_MarkThenCall ==
  \A k \in 1..Len(sites) :
    IsJavaCall(sites[k]) =>
      /\ (k > 1 /\ sites[k - 1] = MarkSite(INVOKEVIRTUAL) /\ site_i >= k)
           => HasEvent("relocate", pcOffset(k), "virtual_call", pcOffset(k - 1))
      /\ NoInvokeMarkFor(k) =>
           /\ site_i < k
           /\ Len(dispatched) >= k => SiteAborted(k)

(* Mark(INVOKEVIRTUAL), Call(method), Call(method): the first call got its     *)
(* relocation and the second one was fatal.                                    *)
C1_Witness ==
  /\ Len(sites) = 3
  /\ sites[1] = MarkSite(INVOKEVIRTUAL)
  /\ IsJavaCall(sites[2]) /\ IsJavaCall(sites[3])
  /\ HasEvent("relocate", pcOffset(2), "virtual_call", pcOffset(1))
  /\ SiteAborted(3)
  /\ fatal_msg = "invalid _next_call_type value"

(* C2: _next_call_type is INVOKE_INVALID when the site loop starts and, after  *)
(* every Call site that was processed, until the next site is processed        *)
(* (site_i is the number of sites processed, sites[site_i] the last of them).  *)
C2_PendingKindReset ==
  /\ (pc = "sites" /\ site_i = 0 /\ dispatched = << >>) => _next_call_type = INVOKE_INVALID
  /\ (site_i >= 1 /\ sites[site_i].cls = "Call") => _next_call_type = INVOKE_INVALID

(* A foreign call without debug info was processed while INVOKESTATIC was      *)
(* pending.                                                                    *)
C2_Witness ==
  /\ site_i = 2
  /\ sites[1] = MarkSite(INVOKESTATIC)
  /\ sites[2] = CallSite("foreign", "none")
  /\ _next_call_type = INVOKE_INVALID

(* C3: the sites are dispatched in input order, each once: the k-th dispatch   *)
(* is of site k, to the routine of its class; a site is dispatched only after  *)
(* all before it were processed; the loop ends only after every site was       *)
(* dispatched; a site of no known class ends installation with a fatal error.  *)
C3_InOrderOnce ==
  /\ \A k \in 1..Len(dispatched) :
       dispatched[k] = [i |-> k, routine |-> Routine(sites[k])]
  /\ Len(dispatched) <= Len(sites)
  /\ \/ Len(dispatched) = site_i
     \/ Len(dispatched) = site_i + 1 /\ pc \in {"fatal", "crash"}
  /\ pc \in {"handlers", "register", "check", "done"} /\ result # LayoutFailureResult
       /\ result # "cache_full" => Len(dispatched) = Len(sites)
  /\ \A k \in 1..Len(dispatched) :
       Routine(sites[k]) = "fatal" =>
         SiteAborted(k) /\ fatal_msg = "unexpected Site subclass"

(* Two sites went to their routines and the third, of an unknown class,        *)
(* aborted the installation.                                                   *)
C3_Witness ==
  /\ Len(sites) = 3
  /\ sites[3] = OtherSite
  /\ Len(dispatched) = 3
  /\ dispatched[1].routine = "site_Mark"
  /\ dispatched[2].routine = "site_Call"
  /\ pc = "fatal"

----------------------------------------------------------------------------
(* Properties of install() (Spec)                                            *)

IsPrefix(s, t) == Len(s) <= Len(t) /\ \A k \in 1..Len(s) : s[k] = t[k]

Done(phase) == \E k \in 1..Len(phases) : phases[k] = phase

LayoutFailed == _code_size > capacity

(* C4 as stated: install() returns code_too_large only when the layout         *)
(* capacity check failed, and then the registration call is never made.        *)
C4_CodeTooLargeOnlyFromLayout ==
  result = "code_too_large" => LayoutFailed /\ ~Done("register")

(* C4: the phases are completed in the order acquire, assumptions, layout,     *)
(* sites, exception table, register; cache_full is returned only with no       *)
(* phase completed and no assumption gathered; code_too_large returned before  *)
(* the registration call comes from the failed capacity check, with no site    *)
(* dispatched, no exception table entry and no registration; once registration *)
(* is made its own result (code_too_large included, for an nmethod) is what    *)
(* install() returns; registration is made only after every site was           *)
(* processed.                                                                  *)
C4_PhaseOrder ==
  /\ IsPrefix(phases, PhaseOrder)
  /\ result = "cache_full" => phases = << >> /\ _dependencies = << >> /\ pc = "done"
  /\ (result = "code_too_large" /\ ~Done("register")) =>
       /\ LayoutFailed
       /\ phases = << "acquire", "assumptions" >>
       /\ dispatched = << >> /\ site_i = 0
       /\ _exception_handler_table = << >>
       /\ registered_deps = << >> /\ cb = NULL
       /\ pc = "done"
  /\ (result = "code_too_large" /\ Done("register")) => ~is_stub /\ ~LayoutFailed
  /\ (pc = "register" \/ Done("register")) =>
       site_i = Len(sites) /\ Len(dispatched) = Len(sites)

(* The capacity check failed on a descriptor with sites, after an assumption   *)
(* was gathered.                                                               *)
C4_Witness ==
  /\ pc = "done"
  /\ result = "code_too_large"
  /\ ~Done("register")
  /\ Len(sites) > 0
  /\ _dependencies # << >>

(* C5: when the code size exceeds the capacity of the instruction section no   *)
(* byte is ever copied into the section and its end stays where it was, and    *)
(* install() gets no further than the layout: it returns code_too_large.       *)
C5_AllOrNothingCopy ==
  target_code_size > capacity =>
    /\ insts_copied = 0
    /\ insts_end = 0
    /\ pc \in {"acquire", "assumptions", "fields", "layout", "fatal", "done"}
    /\ (pc = "done" /\ result # "cache_full") =>
         result = "code_too_large" /\ phases = << "acquire", "assumptions" >>

(* The layout refused a descriptor with a non-empty code array *)
C5_Witness ==
  /\ pc = "done"
  /\ target_code_size > capacity
  /\ code_length > 0
  /\ result = "code_too_large"
  /\ insts_copied = 0

(* C6 as stated: once the registration call is made, every assumption of the   *)
(* descriptor has been asserted on the Dependencies object the call was        *)
(* handed, for nmethods and runtime stubs alike.                               *)
C6_AssumptionsHandedOver ==
  Done("register") =>
    \A i \in 1..Len(assumptions) :
      assumptions[i].klass # "null" =>
        \E j \in 1..Len(registered_deps) :
          registered_deps[j] = [dep |-> DependencyOf(assumptions[i]), of |-> i]

(* C8: the guarantee on the constants section size never fails, and a run of   *)
(* install() that ends with a code object has content_begin and code_begin     *)
(* exactly _constants_size apart.                                              *)
C8_ConstantsSizeExact ==
  /\ fatal_msg # "constants size mismatch"
  /\ (pc = "done" /\ cb # NULL) =>
       ContentToCode(consts_end, consts_alignment) = _constants_size

(* An nmethod was installed whose data section length was rounded up *)
C8_Witness ==
  /\ pc = "done"
  /\ cb = "nmethod"
  /\ data_length > 0
  /\ _constants_size > data_length

----------------------------------------------------------------------------
(* Properties of the constants section sizing (SpecSizing)                    *)

----------------------------------------------------------------------------
(* Properties of the reference map builder (SpecOopMap)                       *)

(* The locations a builder covers: the map and the index in it *)
Covered ==
  { << "register", i >> :
      i \in (IF om_register_map.is_null THEN {} ELSE 0..(RegisterIndices(om_arch) - 1)) }
  \cup { << "frame", i >> :
      i \in 0..((bitset_size(om_frame_map) \div BitsPerLocation(om_arch)) - 1) }

MapWords(c) == IF c[1] = "register" THEN om_register_map.words ELSE om_frame_map

(* The bits of a location: is-reference and the two narrow bits *)
IsRef(c) == is_bit_set(MapWords(c), BitsPerLocation(om_arch) * c[2])
Narrow(c, h) == om_arch # "c1x" /\ is_bit_set(MapWords(c), 3 * c[2] + h)

(* The register or stack slot a location is mapped to *)
Loc(c) ==
  LET i == c[2]
      k == i - RegisterImpl_number_of_registers
  IN IF c[1] = "frame" THEN stack2reg(2 * i)
     ELSE IF k < 0 THEN as_VMReg("cpu", i)
     ELSE IF om_arch = "x86" THEN next(as_VMReg("xmm", k \div 4), 2 * (k % 4))
     ELSE as_VMReg("float", k)

(* How many entries of a kind the map holds for a location at a slot *)
Entries(c, kind, reg) ==
  Cardinality({ n \in 1..Len(om_entries) :
                  om_entries[n] = MapEntry(kind, reg, c[2], c[1]) })

EntriesFor(c) ==
  Cardinality({ n \in 1..Len(om_entries) :
                  om_entries[n].map = c[1] /\ om_entries[n].idx = c[2] })

RefEntriesFor(c) ==
  Cardinality({ n \in 1..Len(om_entries) :
                  /\ om_entries[n].map = c[1] /\ om_entries[n].idx = c[2]
                  /\ om_entries[n].kind \in {"oop", "narrowoop"} })

(* C9 as stated: every is-reference bit that is 1 makes exactly one reference *)
(* entry, or a pair of narrow-reference entries, at the mapped location, and  *)
(* an is-reference bit that is 0 makes no reference or narrow-reference entry *)
C9_OneReferenceOrPair ==
  om_pc = "done" =>
    \A c \in Covered :
      IF IsRef(c)
      THEN \/ Entries(c, "oop", Loc(c)) = 1 /\ RefEntriesFor(c) = 1
           \/ /\ Entries(c, "narrowoop", Loc(c)) = 1
              /\ Entries(c, "narrowoop", next(Loc(c), 1)) = 1
              /\ RefEntriesFor(c) = 2
      ELSE RefEntriesFor(c) = 0

(* C9: for every location a builder covers: an is-reference bit that is 1     *)
(* with no narrow bit makes exactly one reference entry at the mapped slot;   *)
(* with narrow bits it makes one narrow-reference entry for each narrow bit   *)
(* that is 1 (the first at the mapped slot, the second at the slot after it)  *)
(* and no reference entry, so one entry or two; an is-reference bit that is 0 *)
(* makes a plain value entry only, whatever the narrow bits; and the map has  *)
(* no entry for a location that is not covered.                               *)
C9_ReferenceEntries ==
  om_pc = "done" =>
    /\ \A n \in 1..Len(om_entries) : << om_entries[n].map, om_entries[n].idx >> \in Covered
    /\ \A c \in Covered :
         LET n1 == IF Narrow(c, 1) THEN 1 ELSE 0
             n2 == IF Narrow(c, 2) THEN 1 ELSE 0
         IN IF ~IsRef(c)
            THEN Entries(c, "value", Loc(c)) = 1 /\ EntriesFor(c) = 1
            ELSE IF n1 + n2 = 0
            THEN Entries(c, "oop", Loc(c)) = 1 /\ EntriesFor(c) = 1
            ELSE /\ Entries(c, "narrowoop", Loc(c)) = n1
                 /\ Entries(c, "narrowoop", next(Loc(c), 1)) = n2
                 /\ EntriesFor(c) = n1 + n2

(* A register map with a full reference in register 0 and a reference with   *)
(* only the first narrow bit in register 1 was turned into a map.             *)
C9_Witness ==
  /\ om_pc = "done"
  /\ om_arch = "x86"
  /\ ~om_register_map.is_null
  /\ IsRef(<< "register", 0 >>) /\ ~Narrow(<< "register", 0 >>, 1)
  /\ IsRef(<< "register", 1 >>) /\ Narrow(<< "register", 1 >>, 1)
  /\ ~Narrow(<< "register", 1 >>, 2)
  /\ Entries(<< "register", 1 >>, "narrowoop", as_VMReg("cpu", 1)) = 1
  /\ RefEntriesFor(<< "register", 1 >>) = 1

(* The locations of the register map *)
RegisterLocations == { c \in Covered : c[1] = "register" }

(* How many classifications, of any kind, a location made at a slot *)
ClassifiedAt(c, reg) ==
  Cardinality({ n \in 1..Len(om_entries) :
                  /\ om_entries[n].map = c[1] /\ om_entries[n].idx = c[2]
                  /\ om_entries[n].reg = reg })

----------------------------------------------------------------------------
(* Properties of the virtual object resolution (SpecScope)                    *)

(* The ids the values of the frame lead to *)
RECURSIVE ReachableFrom(_)
ReachableFrom(S) ==
  LET step == S \cup { v \in ObjectIds :
                         \E id \in S : \E k \in 1..Len(vo_values[id]) :
                           vo_values[id][k] = v }
  IN IF step = S THEN S ELSE ReachableFrom(step)

ReachableIds ==
  ReachableFrom({ v \in ObjectIds : \E k \in 1..Len(vo_roots) : vo_roots[k] = v })

RECURSIVE ValuesHeld(_, _)
ValuesHeld(objects, k) ==
  IF k > Len(objects) THEN 0
  ELSE Len(vo_values[objects[k].id]) + ValuesHeld(objects, k + 1)

(* C10: resolution terminates: it is never stuck before its end, and it makes *)
(* at most one call of get_scope_value for each value of the frame and of the *)
(* objects in the pool; the ids of the pool are pairwise distinct; every call *)
(* on an id returns the pool record with that id, the same one every time,    *)
(* also while that record's fields are being resolved; at the end the pool    *)
(* holds one record for each id the frame leads to, N in all, each with one   *)
(* field value for each of the object's values.                               *)
C10_VirtualObjectPool ==
  /\ vo_pc = "run" => ENABLED ScopeNext
  /\ Len(vo_returned) + Len(vo_stack) - 1
       <= Len(vo_roots) + ValuesHeld(vo_objects, 1)
  /\ \A j, k \in 1..Len(vo_objects) : j # k => vo_objects[j].id # vo_objects[k].id
  /\ \A n \in 1..Len(vo_returned) :
       vo_returned[n].id # 0 =>
         /\ vo_returned[n].rec \in 1..Len(vo_objects)
         /\ vo_objects[vo_returned[n].rec].id = vo_returned[n].id
         /\ \A m \in 1..Len(vo_returned) :
              vo_returned[m].id = vo_returned[n].id =>
                vo_returned[m].rec = vo_returned[n].rec
  /\ vo_pc = "done" =>
       /\ { vo_objects[k].id : k \in 1..Len(vo_objects) } = ReachableIds
       /\ Len(vo_objects) = Cardinality(ReachableIds)
       /\ \A k \in 1..Len(vo_objects) :
            LET values == vo_values[vo_objects[k].id]
                fields == vo_objects[k].field_values
            IN /\ Len(fields) = Len(values)
               /\ \A p \in 1..Len(values) :
                    IF values[p] = 0 THEN fields[p] = 0
                    ELSE fields[p] # 0 /\ vo_objects[fields[p]].id = values[p]

(* The frame names object 1 twice, object 1 holds object 2 and object 2 holds *)
(* object 1: resolution ended with two records, and the occurrence of 1 met   *)
(* inside its own fields got the record the frame got.                        *)
C10_Witness ==
  /\ vo_pc = "done"
  /\ vo_roots = << 1, 1 >>
  /\ vo_values[1] = << 2 >>
  /\ vo_values[2] = << 1 >>
  /\ Len(vo_objects) = 2
  /\ vo_returned[1] = [id |-> 1, rec |-> 1]
  /\ vo_objects[2].field_values = << 1 >>

(* C30: no call of get_scope_value on a VirtualObject finds the object pool  *)
(* NULL: the pool is a list on every path that resolves a VirtualObject, the   *)
(* one through a non-safepoint Infopoint included.                             *)
C30_PoolNeverNull ==
  /\ vo_pc # "crash"
  /\ \A n \in 1..Len(vo_returned) : vo_returned[n].id # 0 => ~objects_is_null(vo_site)

(* The positions in the log of the events of the given kinds at an offset *)
EventsAt(ops, at) == { n \in 1..Len(log) : log[n].op \in ops /\ log[n].pc = at }

PatchOps == {"set_destination", "set_jump_destination", "relocate"}

(* C15: for a Call site with debug info that site_Call has taken up, the oop    *)
(* map is recorded at the offset of the instruction after the call (the call's  *)
(* offset plus the size of the call instruction) and, when the debug info has a *)
(* bytecode position, so is the scope, and only then; nothing is recorded at    *)
(* the call's own offset, and the recording precedes every patch of the call.   *)
C15_RecordedAtReturnAddress ==
  \A k \in 1..Len(dispatched) :
    (sites[k].cls = "Call" /\ sites[k].debug # "none"
     /\ (k <= site_i \/ fatal_msg # "unsupported type of instruction for call site")) =>
      /\ EventsAt({"add_safepoint", "describe_scope"}, pcOffset(k)) = {}
      /\ \E size \in {NativeCall_instruction_size, NativeFarCall_instruction_size} :
           /\ Cardinality(EventsAt({"add_safepoint"}, pcOffset(k) + size)) = 1
           /\ Cardinality(EventsAt({"describe_scope"}, pcOffset(k) + size))
                = (IF sites[k].debug = "frame" THEN 1 ELSE 0)
           /\ \A n \in EventsAt({"add_safepoint", "describe_scope"}, pcOffset(k) + size) :
                \A q \in EventsAt(PatchOps, pcOffset(k)) : n < q

(* A foreign call with a bytecode position and one without were processed,     *)
(* the first through a far call.                                                *)
C15_Witness ==
  /\ site_i = 2
  /\ sites[1] = CallSite("foreign", "frame")
  /\ sites[2] = CallSite("foreign", "map")
  /\ EventsAt({"describe_scope"}, pcOffset(1) + NativeFarCall_instruction_size) # {}
  /\ EventsAt({"add_safepoint"}, pcOffset(2) + NativeCall_instruction_size) # {}
  /\ EventsAt(PatchOps, pcOffset(1)) # {}

(* The invoke-kind Marks between the previous Call (or the start) and site k *)
InvokeMarksFor(k) == { m \in (LastCallBefore(k) + 1)..(k - 1) : IsInvokeMark(sites[m]) }

(* The last of them: the Mark whose kind is pending when site k is taken up *)
PendingMarkFor(k) == CHOOSE m \in InvokeMarksFor(k) : \A j \in InvokeMarksFor(k) : j <= m

RelocatedTo(k, stub, reloc, mark) ==
  /\ HasEvent("set_destination", pcOffset(k), stub, -1)
  /\ HasEvent("relocate", pcOffset(k), reloc, mark)
  /\ Cardinality(EventsAt(PatchOps, pcOffset(k))) = 2

(* C16 as stated: a Call naming a Java method that was processed to its end    *)
(* had a virtual, interface, static or special kind pending, every other        *)
(* pending kind being fatal.                                                    *)
C16_OtherKindsFatal ==
  \A k \in 1..site_i :
    IsJavaCall(sites[k]) =>
      /\ InvokeMarksFor(k) # {}
      /\ sites[PendingMarkFor(k)].id \in {INVOKEVIRTUAL, INVOKEINTERFACE, INVOKESTATIC, INVOKESPECIAL}

(* C16: a Call naming a Java method that was processed to its end had a kind    *)
(* pending, and its patches follow from that kind: virtual and interface give   *)
(* the resolve-virtual-call stub and a virtual_call relocation with the Mark's  *)
(* address, static the resolve-static-call stub and a static_call relocation,   *)
(* special the resolve-opt-virtual-call stub and an opt_virtual_call            *)
(* relocation, INLINE_INVOKE no patch at all; with no kind pending the call is  *)
(* never processed to its end.                                                  *)
C16_RelocationByPendingKind ==
  \A k \in 1..site_i :
    IsJavaCall(sites[k]) =>
      /\ InvokeMarksFor(k) # {}
      /\ LET m == PendingMarkFor(k)
             kind == sites[m].id
         IN /\ kind \in {INVOKEVIRTUAL, INVOKEINTERFACE} =>
                 RelocatedTo(k, "resolve_virtual_call_stub", "virtual_call", pcOffset(m))
            /\ kind = INVOKESTATIC =>
                 RelocatedTo(k, "resolve_static_call_stub", "static_call", -1)
            /\ kind = INVOKESPECIAL =>
                 RelocatedTo(k, "resolve_opt_virtual_call_stub", "opt_virtual_call", -1)
            /\ kind = INLINE_INVOKE => EventsAt(PatchOps, pcOffset(k)) = {}

(* A call after an INVOKESPECIAL Mark got the opt-virtual patches *)
C16_Witness ==
  /\ site_i = 2
  /\ sites[1] = MarkSite(INVOKESPECIAL)
  /\ IsJavaCall(sites[2])
  /\ RelocatedTo(2, "resolve_opt_virtual_call_stub", "opt_virtual_call", -1)

(* The processed Marks with the given id *)
MarksDone(id) == { k \in 1..site_i : sites[k].cls = "Mark" /\ sites[k].has_id /\ sites[k].id = id }

LabelIds ==
  << [label |-> "Entry", id |-> UNVERIFIED_ENTRY], [label |-> "Verified_Entry", id |-> VERIFIED_ENTRY], [label |-> "OSR_Entry", id |-> OSR_ENTRY], [label |-> "Exceptions", id |-> EXCEPTION_HANDLER_ENTRY], [label |-> "Deopt", id |-> DEOPT_HANDLER_ENTRY] >>

(* C17: the offset table holds under each label the pcOffset of the last         *)
(* processed Mark with that label's entry-point id, and is unset when there is   *)
(* none; a processed invoke-kind Mark leaves its id as the pending kind; a       *)
(* processed poll Mark has had its poll relocation made; a Mark with any other   *)
(* id, CARD_TABLE_ADDRESS and CARD_TABLE_SHIFT included, is never processed to   *)
(* its end: taking it up ends in ShouldNotReachHere.                             *)
C17_MarkByTag ==
  /\ \A n \in 1..Len(LabelIds) :
       LET done == MarksDone(LabelIds[n].id)
       IN _offsets[LabelIds[n].label] =
            (IF done = {} THEN -1
             ELSE pcOffset(CHOOSE k \in done : \A j \in done : j <= k))
  /\ \A k \in 1..site_i :
       (sites[k].cls = "Mark" /\ sites[k].has_id) =>
         /\ sites[k].id \in 1..14
         /\ sites[k].id \in {POLL_NEAR, POLL_FAR, POLL_RETURN_NEAR, POLL_RETURN_FAR} =>
              HasEvent("pd_relocate_poll", pcOffset(k), "", sites[k].id)
         /\ (k = site_i /\ sites[k].id \in 6..10) =>
              _next_call_type = sites[k].id /\ _invoke_mark_pc = pcOffset(k)
  /\ \A k \in 1..Len(dispatched) :
       (sites[k].cls = "Mark" /\ sites[k].has_id /\ sites[k].id \notin 1..14) =>
         pc = "fatal" /\ fatal_msg = "ShouldNotReachHere" /\ site_i = k - 1

(* A verified entry was stored and the CARD_TABLE_SHIFT Mark after it was fatal *)
C17_Witness ==
  /\ sites = << MarkSite(VERIFIED_ENTRY), MarkSite(CARD_TABLE_SHIFT) >>
  /\ pc = "fatal" /\ site_i = 1 /\ Len(dispatched) = 2
  /\ _offsets["Verified_Entry"] = pcOffset(1)
  /\ _offsets["Entry"] = -1

ActualSafepoint(site) == site.reason \in {"SAFEPOINT", "CALL", "IMPLICIT_EXCEPTION"}

(* C18 as stated: every processed Infopoint with one of the three safepoint      *)
(* reasons has a reference map and a debug scope at its pcOffset.                *)
C18_MapAndScopeAlways ==
  \A k \in 1..site_i :
    (sites[k].cls = "Infopoint" /\ ActualSafepoint(sites[k])) =>
      /\ EventsAt({"add_safepoint"}, pcOffset(k)) # {}
      /\ EventsAt({"describe_scope"}, pcOffset(k)) # {}

(* C18: a processed Infopoint has an oop map exactly when its reason is          *)
(* SAFEPOINT, CALL or IMPLICIT_EXCEPTION: then one reference map is recorded at   *)
(* its pcOffset, with a debug scope when the debug info has a bytecode position;  *)
(* for every other reason a non-safepoint annotation is recorded at the offset,   *)
(* again with a scope when there is a bytecode position, and no reference map.    *)
C18_OopMapIffSafepointReason ==
  \A k \in 1..site_i :
    sites[k].cls = "Infopoint" =>
      /\ Cardinality(EventsAt({"add_safepoint"}, pcOffset(k)))
           = (IF ActualSafepoint(sites[k]) THEN 1 ELSE 0)
      /\ Cardinality(EventsAt({"add_non_safepoint"}, pcOffset(k)))
           = (IF ActualSafepoint(sites[k]) THEN 0 ELSE 1)
      /\ Cardinality(EventsAt({"describe_scope"}, pcOffset(k)))
           = (IF sites[k].debug = "frame" THEN 1 ELSE 0)
      /\ \A n \in 1..Len(log) :
           log[n].op \in {"add_safepoint", "add_non_safepoint", "describe_scope"} =>
             \E j \in 1..Len(dispatched) : log[n].pc \in {pcOffset(j), pcOffset(j) + NativeCall_instruction_size, pcOffset(j) + NativeFarCall_instruction_size}

(* A CALL infopoint with a bytecode position and a LINE_NUMBER infopoint were     *)
(* processed.                                                                     *)
C18_Witness ==
  /\ site_i = 2
  /\ sites = << InfopointSite("CALL", "frame"), InfopointSite("LINE_NUMBER", "frame") >>
  /\ EventsAt({"add_safepoint"}, pcOffset(1)) # {}
  /\ EventsAt({"add_safepoint"}, pcOffset(2)) = {}
  /\ EventsAt({"add_non_safepoint"}, pcOffset(2)) # {}

(* C21: every data-section reference that was patched has an offset inside     *)
(* the data section, 0 <= offset < _constants_size; in particular none is        *)
(* patched when the data section is empty.                                       *)
C21_PatchedOnlyInRange ==
  \A n \in 1..Len(log) :
    log[n].op = "pd_patch_DataSectionReference" =>
      0 <= log[n].mark /\ log[n].mark < _constants_size

(* C26: the copy of the machine code into the instruction section writes at    *)
(* most _code_size bytes, also when the code array is longer than               *)
(* targetCodeSize.                                                               *)
C26_CopyWithinCodeSize == insts_copied <= _code_size

(* C27: the copy of the data section reads no byte beyond the end of the        *)
(* data-section array, also when _constants_size was rounded up to the          *)
(* alignment.                                                                    *)
C27_DataReadWithinArray == data_read <= data_length

(* The last processed site up to k that is a Call or an invoke-kind Mark, 0    *)
(* when there is none                                                           *)
LastSetterUpTo(k) ==
  LET set == { j \in 1..k : sites[j].cls = "Call" \/ IsInvokeMark(sites[j]) }
  IN IF set = {} THEN 0 ELSE CHOOSE j \in set : \A m \in set : m <= j

(* The last invoke-kind Mark up to k, 0 when there is none *)
LastInvokeMarkUpTo(k) ==
  LET set == { j \in 1..k : IsInvokeMark(sites[j]) }
  IN IF set = {} THEN 0 ELSE CHOOSE j \in set : \A m \in set : m <= j

(* C23: only an invoke-kind Mark sets and only a Call resets the pending kind:  *)
(* after any number of processed sites _next_call_type is the tag of the last   *)
(* invoke-kind Mark when no Call came after it and INVOKE_INVALID otherwise,    *)
(* and _invoke_mark_pc is the offset of the last invoke-kind Mark, whatever     *)
(* entry-point Marks, poll Marks, Marks without id, Infopoint and DataPatch     *)
(* sites lie in between; a Java call that was processed is relocated by the     *)
(* last invoke-kind Mark since the previous Call.                               *)
C23_OnlyInvokeMarkAndCallSetKind ==
  (pc = "sites" \/ site_i >= 1) =>
    /\ LET j == LastSetterUpTo(site_i)
       IN _next_call_type =
            (IF j = 0 \/ sites[j].cls = "Call" THEN INVOKE_INVALID ELSE sites[j].id)
    /\ LET m == LastInvokeMarkUpTo(site_i)
       IN _invoke_mark_pc = (IF m = 0 THEN -1 ELSE pcOffset(m))
    /\ \A k \in 1..site_i :
         IsJavaCall(sites[k]) /\ InvokeMarksFor(k) # {} =>
           LET m == PendingMarkFor(k)
           IN /\ sites[m].id = INVOKEVIRTUAL =>
                   RelocatedTo(k, "resolve_virtual_call_stub", "virtual_call", pcOffset(m))
              /\ sites[m].id = INVOKESTATIC =>
                   RelocatedTo(k, "resolve_static_call_stub", "static_call", -1)

(* A virtual call was relocated by a Mark that a poll Mark separates from it *)
C23_Witness ==
  /\ site_i = 3
  /\ sites[1] = MarkSite(INVOKEVIRTUAL)
  /\ sites[2] = MarkSite(POLL_NEAR)
  /\ IsJavaCall(sites[3])
  /\ RelocatedTo(3, "resolve_virtual_call_stub", "virtual_call", pcOffset(1))
  /\ _next_call_type = INVOKE_INVALID

(* The calls that open or close a region of the debug recorder, in order *)
RegionCalls ==
  SelectSeq(log, LAMBDA e : e.op \in {"add_safepoint", "end_safepoint",
                                      "add_non_safepoint", "end_non_safepoint"})

(* C24: as long as no site ended the process, the regions of the debug          *)
(* recorder are bracketed: the opening and closing calls alternate, every       *)
(* add_safepoint(pc) is followed by end_safepoint(pc) and every                 *)
(* add_non_safepoint(pc) by end_non_safepoint(pc) before any other region is    *)
(* opened, nothing is closed that is not open, and no region is open between    *)
(* two sites or when the site loop has finished.                                *)
C24_RegionsBracketed ==
  pc \notin {"fatal", "crash"} =>
    /\ Len(RegionCalls) % 2 = 0
    /\ \A n \in 1..Len(RegionCalls) :
         n % 2 = 1 =>
           /\ RegionCalls[n].op \in {"add_safepoint", "add_non_safepoint"}
           /\ RegionCalls[n + 1].op =
                (IF RegionCalls[n].op = "add_safepoint" THEN "end_safepoint"
                 ELSE "end_non_safepoint")
           /\ RegionCalls[n + 1].pc = RegionCalls[n].pc

(* A call with debug info, a safepoint and a non-safepoint infopoint were      *)
(* processed and the site loop has finished                                    *)
C24_Witness ==
  /\ pc = "handlers"
  /\ sites = << CallSite("foreign", "frame"), InfopointSite("SAFEPOINT", "frame"),
                InfopointSite("METHOD_START", "frame") >>
  /\ Len(RegionCalls) = 6

(* The to-interpreter stubs emitted so far *)
StubsEmitted == { n \in 1..Len(log) : log[n].op = "emit_to_interp_stub" }

(* C25: the number of to-interpreter stubs emitted never exceeds the number of *)
(* stubs the stub section was sized for, estimate_stub_entries().               *)
C25_StubsWithinEstimate == Cardinality(StubsEmitted) <= stub_entries

(* A static call got its stub, the one the section was sized for *)
C25_Witness ==
  /\ site_i = 2
  /\ sites[1] = MarkSite(INVOKESTATIC)
  /\ IsJavaCall(sites[2])
  /\ Cardinality(StubsEmitted) = 1
  /\ stub_entries = 1

----------------------------------------------------------------------------
(* install() on descriptors that vary in one of their lists at a time: sites  *)
(* that are Marks of every id or Infopoints of every reason, assumptions of   *)
(* every class, or exception handlers.                                        *)

MaxListLen == 2

VariantSites ==
  { MarkSite(id) : id \in 1..17 } \cup { MarkNoId, CallSite("method", "frame") }
  \cup { InfopointSite(r, d) : r \in SafepointReasons \cup NonSafepointReasons, d \in {"map", "frame"} }
  \cup { InfopointSite("SAFEPOINT", "none") }

InitVariants ==
  /\ \/ InstallerInit(SeqsUpTo(VariantSites, MaxListLen), {<< >>}, {FALSE}, {InstsCapacity}, {0}, {0}, {8}, {<< >>}, BOOLEAN, {INVOKEVIRTUAL})
     \/ InstallerInit({<< >>}, SeqsUpTo(AssumptionAlphabet, MaxListLen), BOOLEAN, {InstsCapacity}, {0}, {0}, {8}, {<< >>}, {FALSE}, {INVOKEVIRTUAL})
     \/ InstallerInit({<< >>}, {<< >>}, {FALSE}, {InstsCapacity}, {0}, {0}, {8}, SeqsUpTo(HandlerAlphabet, MaxListLen), {FALSE}, {INVOKEVIRTUAL})
  /\ SizingIdle /\ OopMapIdle /\ ScopeIdle /\ LaterIdle

SpecVariants == InitVariants /\ [][Next]_vars

(* The headers of the exception table: an entry whose first field is a        *)
(* subtable length; a handler entry has the catch bci -1 there.               *)
HeadersFor(p) ==
  { n \in 1..Len(_exception_handler_table) :
      /\ _exception_handler_table[n].len_or_bci # -1
      /\ _exception_handler_table[n].pco = p }

HandlersAt(p) == { i \in 1..Len(handlers) : handlers[i].pcOffset = p }

(* C12: once process_exception_handlers has run, the exception table holds     *)
(* for each pc-offset that has handlers exactly one header entry, and that      *)
(* header is followed by one entry per handler declared for the pc-offset.      *)
C12_OneSubtablePerPcOffset ==
  Done("handlers") =>
    \A i \in 1..Len(handlers) :
      LET p == handlers[i].pcOffset
      IN /\ Cardinality(HeadersFor(p)) = 1
         /\ \A n \in HeadersFor(p) :
              /\ _exception_handler_table[n].len_or_bci = Cardinality(HandlersAt(p))
              /\ \A k \in 1..Cardinality(HandlersAt(p)) :
                   /\ n + k <= Len(_exception_handler_table)
                   /\ _exception_handler_table[n + k].len_or_bci = -1

(* C13: when install() has completed with a code object, every entry of the   *)
(* assumption list has had its dependency assertion made: no entry is passed   *)
(* over with the installation still completing.                                *)
C13_NoAssumptionSkipped ==
  (pc = "done" /\ result = "ok") =>
    \A i \in 1..Len(assumptions) :
      \E n \in 1..Len(_dependencies) : _dependencies[n].of = i

(* The entries of the assumption list that are not null *)
Assumed == { i \in 1..Len(assumptions) : assumptions[i].klass # "null" }

(* C20 as stated: two assumptions of the same class make the same assertion *)
C20_SameCallPerVariant ==
  \A n, q \in 1..Len(_dependencies) :
    assumptions[_dependencies[n].of].klass = assumptions[_dependencies[q].of].klass =>
      _dependencies[n].dep = _dependencies[q].dep

(* C20: once initialize_assumptions has returned, every entry that is not null  *)
(* has made one assertion, in list order, fixed by its class: MethodContents    *)
(* assert_evol_method, NoFinalizableSubclass                                    *)
(* assert_has_no_finalizable_subclasses, ConcreteMethod                         *)
(* assert_unique_concrete_method, CallSiteTargetValue                           *)
(* assert_call_site_target_value, and ConcreteSubtype assert_leaf_type when its *)
(* context is the subtype itself and                                            *)
(* assert_abstract_with_unique_concrete_subtype otherwise; a list with an entry *)
(* of any other class never gets that far: with a buffer acquired it ends in a  *)
(* fatal error.                                                                 *)
C20_DependencyByVariant ==
  /\ Done("assumptions") =>
       /\ Len(_dependencies) = Cardinality(Assumed)
       /\ \A n \in 1..Len(_dependencies) :
            LET i == _dependencies[n].of
                a == assumptions[i]
            IN /\ i \in Assumed
               /\ \A q \in 1..(n - 1) : _dependencies[q].of < i
               /\ a.klass = "MethodContents" => _dependencies[n].dep = "assert_evol_method"
               /\ a.klass = "NoFinalizableSubclass" =>
                    _dependencies[n].dep = "assert_has_no_finalizable_subclasses"
               /\ a.klass = "ConcreteMethod" =>
                    _dependencies[n].dep = "assert_unique_concrete_method"
               /\ a.klass = "CallSiteTargetValue" =>
                    _dependencies[n].dep = "assert_call_site_target_value"
               /\ a.klass = "ConcreteSubtype" =>
                    _dependencies[n].dep = (IF a.leaf THEN "assert_leaf_type"
                                            ELSE "assert_abstract_with_unique_concrete_subtype")
               /\ a.klass \in AssumptionClasses
  /\ (pc # "acquire" /\ pc # "assumptions" /\ result # "cache_full"
      /\ \E i \in 1..Len(assumptions) : assumptions[i].klass = "Other") =>
       /\ pc = "fatal"
       /\ fatal_msg = "unexpected Assumption subclass"
       /\ ~Done("assumptions")

(* Two ConcreteSubtype assumptions, one with its context as subtype, made their  *)
(* two different assertions.                                                     *)
C20_Witness ==
  /\ Done("assumptions")
  /\ assumptions = << Assumption("ConcreteSubtype", TRUE), Assumption("ConcreteSubtype", FALSE) >>
  /\ _dependencies = << [dep |-> "assert_leaf_type", of |-> 1], [dep |-> "assert_abstract_with_unique_concrete_subtype", of |-> 2] >>

----------------------------------------------------------------------------
(* record_scope on a bytecode position: the recursion into the caller         *)
(* positions, and for each position the reexecute flag, the walk over the     *)
(* frame's values and the call of describe_scope. Monitor values never leave  *)
(* `second` set (get_monitor_value has its own), so the frames here have      *)
(* locals and expressions only.                                               *)

MaxValues == 3

MaxCallers == 2

CallBytecodes ==
  {"_invokedynamic", "_invokevirtual", "_invokeinterface", "_invokespecial", "_invokestatic"}

Bytecodes == CallBytecodes \cup {"_getfield"}

bytecode_should_reexecute(code) == IF code \in CallBytecodes THEN FALSE ELSE TRUE

(* A position: is_frame (a BytecodeFrame), bci ("sync": BEFORE_BCI or          *)
(* SynchronizationEntryBCI, else "bci"), the bytecode at bci, duringCall, and    *)
(* the frame's values by kind: "single" (get_scope_value leaves second NULL),    *)
(* "double" (it sets second) or "illegal" (Value.ILLEGAL).                       *)
Position(is_frame, bci, code, duringCall, numLocals, values) == [is_frame |-> is_frame, bci |-> bci, code |-> code, duringCall |-> duringCall, numLocals |-> numLocals, values |-> values]

ValueKinds == {"single", "double", "illegal"}

(* BytecodePosition::caller were it NULL for every position *)
caller_None(chain, depth) == 0

(* BytecodePosition::caller of the position at `depth` of a chain that lists   *)
(* the position record_scope was called with first and each position's caller  *)
(* after it; 0 is NULL.                                                         *)
caller(chain, depth) == IF depth < Len(chain) THEN depth + 1 ELSE 0

(* get_scope_value on the value at index k: the scope values record_scope      *)
(* appends for it, the second part first                                        *)
ScopeValuesOf(values, k) ==
  IF values[k] = "double"
  THEN << [of |-> k, part |-> "second"], [of |-> k, part |-> "first"] >>
  ELSE << [of |-> k, part |-> "first"] >>

(* The flag as record_scope leaves it: the assignment from duringCall comes    *)
(* after the one from the bytecode                                              *)
ReexecuteOf(position) ==
  IF ~position.is_frame \/ position.bci = "sync" THEN FALSE
  ELSE (position.duringCall = FALSE)

RecordScopeUnchanged == UNCHANGED << installerVars, sizingVars, oopMapVars, scopeVars, cc_installers, cc_code_cache >>

(* The head of record_scope: a position with a caller first calls record_scope *)
(* on the caller, one without goes on with its own scope.                       *)
RecordScopeEnter ==
  /\ rs_pc = "enter"
  /\ LET caller_frame == caller(rs_chain, rs_depth)
     IN IF caller_frame # 0
        THEN /\ rs_depth' = caller_frame
             /\ rs_position' = rs_chain[caller_frame]
             /\ UNCHANGED rs_pc
        ELSE /\ rs_pc' = "start"
             /\ UNCHANGED << rs_depth, rs_position >>
  /\ UNCHANGED << rs_build, rs_i, rs_taken, rs_locals, rs_expressions, rs_reexecute,
                  rs_scope, rs_chain >>
  /\ RecordScopeUnchanged

RecordScopeReexecute ==
  /\ rs_pc = "start"
  /\ rs_reexecute' = ReexecuteOf(rs_position)
  /\ rs_pc' = IF rs_position.is_frame THEN "values" ELSE "describe"
  /\ UNCHANGED << rs_build, rs_position, rs_i, rs_taken, rs_locals, rs_expressions,
                  rs_scope, rs_chain, rs_depth >>
  /\ RecordScopeUnchanged

(* One iteration of the loop over values; i counts from 0 as in the code *)
RecordScopeValue ==
  /\ rs_pc = "values"
  /\ rs_i < Len(rs_position.values)
  /\ LET values == rs_position.values
         k == rs_i + 1
         double == values[k] = "double"
         missing == double /\ ~(rs_i + 1 < Len(values))
         other == double /\ ~missing /\ values[k + 1] # "illegal"
     IN /\ rs_taken' = rs_taken \cup {k}
        /\ IF rs_i < rs_position.numLocals
           THEN /\ rs_locals' = rs_locals \o ScopeValuesOf(values, k)
                /\ UNCHANGED rs_expressions
           ELSE /\ rs_expressions' = rs_expressions \o ScopeValuesOf(values, k)
                /\ UNCHANGED rs_locals
        /\ IF rs_build /\ (missing \/ other)
           THEN /\ rs_pc' = "fatal"
                /\ rs_i' = rs_i + 1
           ELSE /\ rs_i' = IF double THEN rs_i + 2 ELSE rs_i + 1
                /\ UNCHANGED rs_pc
  /\ UNCHANGED << rs_build, rs_position, rs_reexecute, rs_scope, rs_chain, rs_depth >>
  /\ RecordScopeUnchanged

(* describe_scope and the return: to the activation that made the recursive   *)
(* call, which goes on with its own scope, or to the caller of record_scope.   *)
RecordScopeDescribe ==
  /\ \/ rs_pc = "describe"
     \/ rs_pc = "values" /\ rs_i >= Len(rs_position.values)
  /\ rs_scope' = Append(rs_scope, [depth |-> rs_depth, reexecute |-> rs_reexecute,
                                   locals |-> rs_locals, expressions |-> rs_expressions])
  /\ IF rs_depth > 1
     THEN /\ rs_depth' = rs_depth - 1
          /\ rs_position' = rs_chain[rs_depth - 1]
          /\ rs_i' = 0
          /\ rs_taken' = {}
          /\ rs_locals' = << >>
          /\ rs_expressions' = << >>
          /\ rs_pc' = "start"
     ELSE /\ rs_pc' = "done"
          /\ UNCHANGED << rs_depth, rs_position, rs_i, rs_taken, rs_locals,
                          rs_expressions >>
  /\ UNCHANGED << rs_build, rs_reexecute, rs_chain >>
  /\ RecordScopeUnchanged

RecordScopeNext ==
  \/ RecordScopeEnter
  \/ RecordScopeReexecute
  \/ RecordScopeValue
  \/ RecordScopeDescribe

Positions ==
  { Position(TRUE, b, c, d, n, v) : b \in {"sync", "bci"}, c \in Bytecodes, d \in BOOLEAN, n \in 0..MaxValues, v \in SeqsUpTo(ValueKinds, MaxValues) }
  \cup { Position(FALSE, b, c, FALSE, 0, << >>) : b \in {"sync", "bci"}, c \in Bytecodes }

(* The positions of the inlining callers: a frame at its call, and a position *)
(* that is no BytecodeFrame                                                    *)
CallerPositions ==
  { Position(TRUE, "bci", "_invokestatic", TRUE, 1, << "single" >>),
    Position(FALSE, "bci", "_invokevirtual", FALSE, 0, << >>) }

InitRecordScope ==
  /\ rs_pc = "enter"
  /\ rs_build \in BOOLEAN
  /\ rs_position \in { p \in Positions : p.numLocals <= Len(p.values) }
  /\ rs_chain \in { << rs_position >> \o callers : callers \in SeqsUpTo(CallerPositions, MaxCallers) }
  /\ rs_depth = 1
  /\ rs_i = 0
  /\ rs_taken = {}
  /\ rs_locals = << >>
  /\ rs_expressions = << >>
  /\ rs_reexecute = FALSE
  /\ rs_scope = << >>
  /\ cc_installers = << >> /\ cc_code_cache = << >>
  /\ InstallerIdle /\ SizingIdle /\ OopMapIdle /\ ScopeIdle

SpecRecordScope == InitRecordScope /\ [][RecordScopeNext]_vars

(* C11: when record_scope has described a frame, every double-width value it   *)
(* handed to get_scope_value is immediately followed in the frame's values by   *)
(* the Value.ILLEGAL marker: a double-width value that is last or is followed   *)
(* by another value never gets as far as describe_scope.                        *)
C11_DoubleSlotFollowedByIllegal ==
  rs_pc = "done" =>
    \A k \in rs_taken :
      rs_position.values[k] = "double" =>
        /\ k < Len(rs_position.values)
        /\ rs_position.values[k + 1] = "illegal"

(* C19: a frame at a call bytecode is never described with reexecute true.     *)
C19_CallNeverReexecuted ==
  (rs_pc = "done" /\ rs_position.is_frame /\ rs_position.bci = "bci"
   /\ rs_position.code \in CallBytecodes) => ~rs_scope[Len(rs_scope)].reexecute

(* C22: for a chain of d bytecode positions describe_scope is called once per  *)
(* position, the outermost caller first and the position record_scope was      *)
(* called with last: the n-th call is for the position d - n + 1 of the chain,  *)
(* and when record_scope returns exactly d calls have been made.               *)
C22_OutermostFirst ==
  /\ \A n \in 1..Len(rs_scope) : rs_scope[n].depth = Len(rs_chain) - n + 1
  /\ rs_pc = "done" => Len(rs_scope) = Len(rs_chain)

(* A position with two callers was recorded: three scopes, the leaf last *)
C22_Witness ==
  /\ rs_pc = "done"
  /\ Len(rs_chain) = 3
  /\ Len(rs_scope) = 3
  /\ rs_scope[3].depth = 1
  /\ rs_scope[1].depth = 3

(* C28: in a build that checks its assertions, every frame that was described  *)
(* has as many locals as its numLocals and as many expressions as its          *)
(* numStack (the values after the locals): skipping the marker after a         *)
(* double-width value takes no slot of the next section.                       *)
C28_SectionsHaveDeclaredLength ==
  rs_build =>
    \A n \in 1..Len(rs_scope) :
      LET p == rs_chain[rs_scope[n].depth]
      IN p.is_frame =>
           /\ Len(rs_scope[n].locals) = p.numLocals
           /\ Len(rs_scope[n].expressions) = Len(p.values) - p.numLocals
----------------------------------------------------------------------------
(* Two installations run by two compiler threads. A CodeInstaller is a stack  *)
(* object of the thread that runs install(): its fields, its recorders and    *)
(* its CodeBuffer (over the thread's own buffer blob) belong to one thread.   *)
(* The static members (_int_0_scope_value and the others) are set once when   *)
(* the VM starts and only read afterwards. What the threads share is the code *)
(* cache the registration call allocates from. The instruction at every call  *)
(* site is a call and the build is a product build.                           *)

MaxThreadSites == 2

(* The fields of a CodeInstaller about to run its site loop *)
Installer(ss) == [sites |-> ss, i |-> 0, st |-> "run", nct |-> INVOKE_INVALID, imp |-> -1, off |-> NoOffsets, log |-> << >>]

(* One iteration of the site loop of thread t, were _next_call_type a field   *)
(* shared by the installers.                                                   *)
StepInstaller_SharedKind(all, t) ==
  LET me == all[t]
      p == ProcessSite(me.sites[me.i + 1], pcOffset(me.i + 1), "call", "unresolved", FALSE, all[3 - t].nct, me.imp, me.off, 0)
  IN [me EXCEPT !.nct = p.nct, !.imp = p.imp, !.off = p.off, !.log = me.log \o p.r.ev,
                !.i = IF p.r.st = "ok" THEN NextSite(me.i) ELSE me.i,
                !.st = IF p.r.st = "ok" THEN "run" ELSE p.r.st]

(* One iteration of the site loop of thread t: it reads and writes the fields *)
(* of the thread's own installer only.                                         *)
StepInstaller(all, t) ==
  LET me == all[t]
      p == ProcessSite(me.sites[me.i + 1], pcOffset(me.i + 1), "call", "unresolved", FALSE, me.nct, me.imp, me.off, 0)
  IN [me EXCEPT !.nct = p.nct, !.imp = p.imp, !.off = p.off, !.log = me.log \o p.r.ev,
                !.i = IF p.r.st = "ok" THEN NextSite(me.i) ELSE me.i,
                !.st = IF p.r.st = "ok" THEN "run" ELSE p.r.st]

(* The installer run to its end with no other thread around *)
RECURSIVE RunAlone(_)
RunAlone(me) ==
  IF me.st # "run" THEN me
  ELSE IF me.i >= Len(me.sites) THEN [me EXCEPT !.st = "done"]
  ELSE RunAlone(StepInstaller(<< me, me >>, 1))

InstallerStep(t) ==
  /\ cc_installers[t].st = "run"
  /\ cc_installers[t].i < Len(cc_installers[t].sites)
  /\ cc_installers' = [cc_installers EXCEPT ![t] = StepInstaller(cc_installers, t)]
  /\ UNCHANGED << cc_code_cache, installerVars, sizingVars, oopMapVars, scopeVars, recordScopeVars >>

(* The site loop of thread t ends and the thread registers its code *)
InstallerFinish(t) ==
  /\ cc_installers[t].st = "run"
  /\ cc_installers[t].i >= Len(cc_installers[t].sites)
  /\ cc_installers' = [cc_installers EXCEPT ![t].st = "done"]
  /\ cc_code_cache' = Append(cc_code_cache, t)
  /\ UNCHANGED << installerVars, sizingVars, oopMapVars, scopeVars, recordScopeVars >>

ConcurrentNext == \E t \in 1..2 : InstallerStep(t) \/ InstallerFinish(t)

ThreadSites ==
  { MarkSite(INVOKEVIRTUAL), MarkSite(INVOKESTATIC), MarkSite(VERIFIED_ENTRY), CallSite("method", "frame") }

InitConcurrent ==
  /\ cc_installers \in { << Installer(a), Installer(b) >> : a \in SeqsUpTo(ThreadSites, MaxThreadSites), b \in SeqsUpTo(ThreadSites, MaxThreadSites) }
  /\ cc_code_cache = << >>
  /\ InstallerIdle /\ SizingIdle /\ OopMapIdle /\ ScopeIdle /\ RecordScopeIdle

SpecConcurrent == InitConcurrent /\ [][ConcurrentNext]_vars

====
